---- MODULE Spec2Model ----
(***************************************************************************)
(* Model of the render request lifecycle of node-html2img-render-server:   *)
(* the browser singleton of src/services/renderer.js (getBrowser,          *)
(* closeBrowser), the per-request context/page lifecycle of renderHTML,    *)
(* and the POST /render route with its validation middleware.              *)
(*                                                                         *)
(* Node runs one callback at a time: every action below is the code that   *)
(* runs between two awaits of one async function, and the interleavings   *)
(* are those of the event loop.  Playwright is the environment: a call to  *)
(* it may resolve or reject.                                               *)
(***************************************************************************)
EXTENDS Integers, Sequences, FiniteSets, TLC

\* ------------------------------------------------------------------ bounds
NumRequests == 2      \* render requests (renderHTML invocations), numbered in arrival order

Requests == 1..NumRequests
Handles == 1..NumRequests          \* a request launches at most one browser
Closers == {"SIGTERM", "SIGINT"}   \* the two signal handlers, renderer.js 492-500

NoBrowser == 0        \* browserInstance = null
NoObject == 0         \* an unassigned local (context, page)

\* ------------------------------------------------------------------ state
VARIABLES
  browserInstance,    \* renderer.js:8   the module-level cache: NoBrowser or a handle
  launched,           \* number of chromium.launch() calls that resolved
  browserCloseCalls,  \* handle -> number of close() invocations on it
  crashed,            \* handles whose browser process crashed / disconnected
  pc,                 \* request -> position in renderHTML
  params,             \* request -> the params object of the call
  browser,            \* request -> local `browser`  (renderer.js:159)
  context,            \* request -> local `context`  (renderer.js:159)
  page,               \* request -> local `page`     (renderer.js:159)
  error,              \* request -> the error the call is unwinding with / rejected with
  failedAt,           \* request -> the step of renderHTML whose rejection that error is
  clip,               \* request -> whether screenshotOptions.clip is set (block-scoped, 297-357)
  captures,           \* request -> number of page.screenshot() invocations
  capture,            \* request -> the capture taken: [options, buffer, renderingTime]
  result,             \* request -> what renderHTML returns: [imageBuffer, metadata, contentType]
  intercepting,       \* request -> whether the asset route handler is installed on its page
  loads,              \* request -> how the page's requests for asset files were resolved
  contexts,           \* the browser contexts: identity -> [created, closeCalls, users]
  pages,              \* the pages: identity -> [created, closeCalls, users]
  cpc,                \* closer -> position in closeBrowser
  route,              \* request -> position in the middleware chain of POST /render
  req,                \* request -> the HTTP request: [path, apiKey, body]
  res,                \* request -> the HTTP response: [sent, status, headers, body]
  nodeEnv,            \* process.env.NODE_ENV
  apiKeyEnv,          \* process.env.API_KEY
  timer,              \* request -> the timer of the timeout middleware for it
  nextCalls,          \* request -> what that middleware passed to next(), call by call
  handled,            \* request -> number of errors that reached errorHandler
  requests,           \* rateLimit's Map: ip -> [has, count, timestamp]
  now,                \* Date.now()
  maxRequests,        \* rateLimit's first argument
  windowMs,           \* rateLimit's second argument
  rateCalls,          \* ip -> what rateLimit passed to next(), call by call: [at, err]
  assetOptions,       \* the options addAssetsToPage is called with: [given, assets, fonts]
  apc,                \* position in addAssetsToPage
  routeCalls,         \* number of page.route() calls that installed the handler
  styleTags,          \* the contents page.addStyleTag() injected, call by call
  pauses,             \* number of page.waitForTimeout() calls
  served,             \* what the route handler did with the requests it intercepted
  caught,             \* whether addAssetsToPage's outer catch has run
  telemetryEnabled,   \* the server's telemetryEnabled
  spc,                \* signal -> position in the server's handler of the signal
  exited,             \* whether process.exit() has been called
  elapsed,            \* request -> milliseconds since `startTime = Date.now()` (renderer.js 298)
  metrics,            \* request -> what its invocation recorded through recordRenderMetrics
  span,               \* the span startActiveSpan hands to a tracing wrapper or to the route
  traced,             \* the call of a traced function, middleware or route handler
  wrapped             \* the call of a middleware under wrapMiddlewareWithErrorFormat

vars == <<browserInstance, launched, browserCloseCalls, crashed, pc,
          params, browser, context, page, error, failedAt, clip, captures,
          capture, result, intercepting, loads, contexts, pages, cpc, route, req, res, nodeEnv,
          apiKeyEnv, timer, nextCalls, handled, requests, now, maxRequests, windowMs,
          rateCalls, assetOptions, apc, routeCalls, styleTags, pauses, served, caught,
          telemetryEnabled, spc, exited, elapsed, metrics, span, traced, wrapped>>

envVars == <<nodeEnv, apiKeyEnv>>
wrapperVars == <<span, traced, wrapped>>

timeoutVars == <<timer, nextCalls>>

limitVars == <<requests, now, maxRequests, windowMs, rateCalls>>

assetVars == <<assetOptions, apc, routeCalls, styleTags, pauses, served, caught>>

signalVars == <<telemetryEnabled, spc, exited>>

routeVars == <<route, req, res, envVars, wrapperVars, limitVars, assetVars, signalVars, timeoutVars, handled>>

browserVars == <<browserInstance, launched, browserCloseCalls, crashed>>

captureVars == <<capture, result, intercepting, loads, elapsed>>
dataVars == <<captureVars, metrics>>

\* ------------------------------------------------------------------ values
\* JavaScript values of the numeric body fields: undefined (the field is absent), a
\* number, or a string (v is then the number the string converts to).
Undefined == [t |-> "undefined", v |-> 0]
Num(n) == [t |-> "number", v |-> n]
Str(n) == [t |-> "string", v |-> n]

\* JavaScript truthiness of such a value: 0 and undefined are falsy.
Truthy(x) == x.t = "string" \/ (x.t = "number" /\ x.v # 0)

\* A string-valued field that is absent from the JSON body (undefined).
Absent == "undefined"

\* JavaScript truthiness of a string-valued field: undefined and "" are falsy.
TruthyString(x) == x \notin {Absent, ""}

NoViewport == [t |-> "undefined", width |-> Undefined, height |-> Undefined,
               deviceScaleFactor |-> Undefined]
Viewport(w, h, d) == [t |-> "object", width |-> w, height |-> h, deviceScaleFactor |-> d]

ViewportKeys == {"width", "height", "deviceScaleFactor"}

\* renderer.js:137 and routes/render.js:98: the viewport used when none is given.
DefaultViewport == Viewport(Num(1280), Num(720), Num(1))

\* ------------------------------------------------------------------ params
\* The fields of params that decide renderHTML's control flow (renderer.js 133-145).
DefaultQuality == 90

NoParams == [assets |-> FALSE, waitForSelector |-> FALSE, clipSelector |-> FALSE,
             format |-> "png", quality |-> DefaultQuality, embedMetadata |-> TRUE,
             viewport |-> DefaultViewport]

PlainParams == NoParams

FullParams == [assets |-> TRUE, waitForSelector |-> TRUE, clipSelector |-> TRUE,
               format |-> "png", quality |-> DefaultQuality, embedMetadata |-> TRUE,
               viewport |-> DefaultViewport]

JpegParams == [assets |-> FALSE, waitForSelector |-> FALSE, clipSelector |-> TRUE,
               format |-> "jpeg", quality |-> DefaultQuality, embedMetadata |-> TRUE,
               viewport |-> DefaultViewport]

\* The params of the direct callers of renderHTML: html and viewport alone (as in the
\* unit tests), every optional step, a clipped JPEG.
ParamSet == {PlainParams, FullParams, JpegParams}

\* ------------------------------------------------------------------ capture data
\* renderer.js 384-390: the metadata record.  NoMetadata stands for none.
NoMetadata == [renderedAt |-> 0, viewport |-> NoViewport, browserVersion |-> 0,
               renderingTime |-> 0, screenshotId |-> 0]

\* An image buffer: the capture it holds (NoObject for none) and the JSON text of its
\* `metadata` text chunk, if it has one.
NoText == [present |-> FALSE, json |-> [NoMetadata EXCEPT !.viewport = [k \in {} |-> Undefined]]]
Image(shot, text) == [shot |-> shot, text |-> text]
NoImage == Image(NoObject, NoText)

\* An options object that carries the quality whatever the format is.
QualityAlways(p) == Num(p.quality)

\* renderer.js 307-311: options.quality is set for jpeg alone.
QualityOption(p) == IF p.format = "jpeg" THEN Num(p.quality) ELSE Undefined

\* renderer.js 300-311, 314-326: the options page.screenshot is called with.  fullPage
\* is !clipSelector, and is deleted once a bounding box has been found.
ScreenshotOptions(p, clipped) ==
  [type |-> IF p.format = "jpeg" THEN "jpeg" ELSE "png",
   quality |-> QualityOption(p),
   fullPage |-> IF clipped THEN "absent" ELSE IF p.clipSelector THEN "false" ELSE "true",
   clip |-> clipped]

NoOptions == [type |-> "none", quality |-> Undefined, fullPage |-> "absent", clip |-> FALSE]
NoCapture == [options |-> NoOptions, buffer |-> NoImage, renderingTime |-> 0]
NoResult == [imageBuffer |-> NoImage, metadata |-> NoMetadata, contentType |-> "none"]

\* The milliseconds a page.screenshot() call takes (renderer.js 350), and those a
\* page.$() or boundingBox() call takes (319, 321).
Durations == {25}

LookupTime == 3

\* ------------------------------------------------------------------ helpers
\* A handle on which Playwright calls still work.
Usable(h) == h \notin crashed /\ browserCloseCalls[h] = 0

\* A launched handle on which close() has never been invoked.
LiveHandles == {h \in 1..launched : browserCloseCalls[h] = 0}

\* renderer.js 467-477: the finally block entered with locals p (page), c (context):
\* `if (page) await page.close(); if (context) await context.close();`
FinallyEntry(p, c) ==
  IF p # NoObject THEN "pageClose"
  ELSE IF c # NoObject THEN "contextClose"
  ELSE "done"

\* What one invocation has recorded: the increments of the render counter by status
\* and the number of records in the duration and size histograms.
NoMetrics == [success |-> 0, error |-> 0, durations |-> 0, sizes |-> 0]

\* telemetry.js 86-103: recordRenderMetrics adds one to the render counter under the
\* status and, for a success only, records the duration and the size.
RecordRenderMetrics(m, isError) ==
  IF isError
    THEN [m EXCEPT !.error = @ + 1]
    ELSE [m EXCEPT !.success = @ + 1, !.durations = @ + 1, !.sizes = @ + 1]

\* renderer.js 450-466: the catch records the error metric if format is truthy and
\* rethrows; then the finally block.
Throw(r, err) ==
  /\ error' = [error EXCEPT ![r] = err]
  /\ failedAt' = [failedAt EXCEPT ![r] = pc[r]]
  /\ metrics' = [metrics EXCEPT ![r] =
                   IF TruthyString(params[r].format) THEN RecordRenderMetrics(@, TRUE) ELSE @]
  /\ pc' = [pc EXCEPT ![r] = FinallyEntry(page[r], context[r])]

\* The error a Playwright call on handle h rejects with.
FailureOf(h) == IF Usable(h) THEN "Error" ELSE "TargetClosed"

\* The errors a Playwright call that takes a timeout (setContent and screenshot: 30 s
\* by default; waitForSelector: 5 s, renderer.js:276) rejects with.
TimedFailuresOf(h) == IF Usable(h) THEN {"Error", "TimeoutError"} ELSE {"TargetClosed"}

\* A context or page that newContext() / newPage() has not created (yet).
NoObjectRec == [created |-> 0, closeCalls |-> 0, users |-> {}]

\* The invocations that have been called and have not settled.
InFlight == {r \in Requests : pc[r] \notin {"idle", "settled"}}

\* ------------------------------------------------------------------ HTTP request

\* A body that passes every check and asks for none of the optional steps.
ValidBody == [html |-> "<p>ok</p>", viewport |-> NoViewport, format |-> Absent,
              quality |-> Undefined, waitForSelector |-> FALSE, clipSelector |-> FALSE,
              assets |-> FALSE, contentLength |-> "1KB", responseFormat |-> Absent,
              embedMetadata |-> Absent, image |-> Absent]

HtmlValues == {Absent, "", "<p>ok</p>", "<script>process.env</script>"}

ViewportValues ==
  {NoViewport, Viewport(Str(1280), Num(720), Undefined), Viewport(Num(1280), Str(720), Undefined)}
    \cup {Viewport(Num(w), Num(720), Undefined) : w \in {0, 1, 5000, 5001}}
    \cup {Viewport(Num(1280), Num(h), Undefined) : h \in {0, 1, 5000, 5001}}
    \cup {Viewport(Num(1280), Num(720), d) : d \in {Num(-1), Num(0), Num(1), Num(5), Num(6), Str(2)}}

FormatValues == {Absent, "", "png", "jpeg", "gif"}

QualityValues == {Undefined, Num(0), Num(1), Num(100), Num(101)}

ResponseFormatValues == {Absent, "image", "json", "xml"}

\* The JSON literals of the embedMetadata field.
EmbedMetadataValues == {Absent, "true", "false"}

\* The request bodies of the model: ValidBody with one aspect varied at a time.
Bodies ==
  {[ValidBody EXCEPT !.html = h] : h \in HtmlValues}
    \cup {[ValidBody EXCEPT !.viewport = v] : v \in ViewportValues}
    \cup {[ValidBody EXCEPT !.format = f, !.quality = q] : f \in FormatValues, q \in QualityValues}
    \cup {[ValidBody EXCEPT !.contentLength = "11MB", !.format = f] : f \in {Absent, "gif"}}
    \cup {[ValidBody EXCEPT !.waitForSelector = TRUE, !.clipSelector = c, !.assets = TRUE] :
            c \in BOOLEAN}
    \cup {[ValidBody EXCEPT !.responseFormat = f, !.embedMetadata = e, !.format = g] :
            f \in ResponseFormatValues, e \in EmbedMetadataValues, g \in {Absent, "jpeg"}}
    \cup {[ValidBody EXCEPT !.responseFormat = f, !.viewport = Viewport(Num(800), Num(600), d)] :
            f \in {Absent, "json"}, d \in {Undefined, Num(2)}}

\* The bodies sent to POST /render/metadata: without and with image data.
MetadataBodies == {[ValidBody EXCEPT !.image = i] : i \in {Absent, "", "iVBORw0KGgo="}}

\* The requests of the model: POST /render, POST /render/metadata and a path that no
\* route serves.
Messages ==
  {[path |-> "/render", body |-> b] : b \in Bodies}
    \cup {[path |-> "/render/metadata", body |-> b] : b \in MetadataBodies}
    \cup {[path |-> "/missing", body |-> ValidBody]}

\* The values of process.env.NODE_ENV the server is run with.
NodeEnvs == {"production", "development"}

\* The configured value of process.env.API_KEY, and the apiKey query parameters of
\* the model.
API_KEY == "secret"
ApiKeys == {Absent, "secret", "wrong"}

\* error.js 20-26: new ApiError(message, status), and (status 0) no error.
ApiError(message, status) == [message |-> message, status |-> status]
NoApiError == ApiError(Absent, 0)

NoReq == [path |-> "/render", apiKey |-> Absent, body |-> ValidBody]

\* The `error` member of a JSON error body: the envelope {message, status[, stack]}
\* of errorHandler, or a bare string.
NoError == [shape |-> "none", message |-> Absent, status |-> 0, stack |-> FALSE]
Envelope(err, stack) ==
  [shape |-> "object", message |-> err.message, status |-> err.status, stack |-> stack]
StringError == [shape |-> "string", message |-> Absent, status |-> 0, stack |-> FALSE]

\* A response body: nothing, a JSON document (an error, or the image as base64 text
\* with contentType and metadata), or the raw bytes of an image.
NoBody == [kind |-> "none", error |-> NoError, image |-> NoImage, encoding |-> "none",
           contentType |-> "none", metadata |-> NoText.json]
ErrorBody(e) == [NoBody EXCEPT !.kind = "json", !.error = e]

\* Express res.set(name, value): the header holds the value as a string.
HeaderOf(n) == Str(n)
ViewportHeaders(viewport) ==
  [k \in {key \in ViewportKeys : viewport[key].t # "undefined"} |-> HeaderOf(viewport[k].v)]

\* The response headers of the model: Content-Type, X-Screenshot-ID, X-Rendering-Time,
\* X-Browser-Version, X-Rendered-At and the X-Viewport-* headers (viewport key -> value).
NoHeaders == [contentType |-> "none", screenshotId |-> Undefined, renderingTime |-> Undefined,
              browserVersion |-> Undefined, renderedAt |-> Undefined,
              viewport |-> [k \in {} |-> Undefined]]
JsonHeaders == [NoHeaders EXCEPT !.contentType = "application/json"]

\* An Express response before it is sent: res.statusCode starts as 200.
NotSent == [sent |-> FALSE, status |-> 200, headers |-> NoHeaders, body |-> NoBody]

\* res.status(code).json({error: e})
ErrorResponse(code, e) ==
  [sent |-> TRUE, status |-> code, headers |-> JsonHeaders, body |-> ErrorBody(e)]

\* addAssetsToPage(page, null)
NullOptions == [given |-> FALSE, assets |-> {}, fonts |-> << >>]

\* The client addresses (req.ip) the rate limiter sees.
IPs == {"A", "B"}

\* The largest limit and the longest window rateLimit is created with, the last instant
\* of the clock, and the number of requests of one address.
MaxLimit == 2
MaxWindow == 2
MaxNow == 4
MaxCalls == 4

\* An address the Map has no entry for.
NoEntry == [has |-> FALSE, count |-> 0, timestamp |-> 0]

\* ------------------------------------------------------------------ wrapper values
\* A span: whether startActiveSpan created it, the number of span.end() calls, the
\* status of the last setStatus and the errors given to recordException.
NoSpan == [started |-> FALSE, endCalls |-> 0, status |-> "UNSET", exceptions |-> << >>]

\* What a function did or has not done yet: returned (resolved with) v, or threw
\* (rejected with) v.
Pending == [t |-> "pending", v |-> "none"]
Returned(v) == [t |-> "returned", v |-> v]
Threw(err) == [t |-> "threw", v |-> err]

\* The call of a wrapped function: the wrapper, its position, the wrapper's local
\* responseEnded, the arguments the downstream next received, the number of res.end()
\* calls, what the wrapped function did and what the wrapper did.
NoTraced == [wrapper |-> "none", tpc |-> "idle", responseEnded |-> FALSE,
             nextArgs |-> << >>, resEndCalls |-> 0, fn |-> Pending, outcome |-> Pending]

\* The call of a middleware under wrapMiddlewareWithErrorFormat: its position, the
\* response, the argument wrappedNext was called with, the res.headersSent it read,
\* and the arguments the downstream next received.
NoWrapped == [wpc |-> "idle", res |-> NotSent, arg |-> NoApiError, headersSent |-> FALSE,
              nextArgs |-> << >>]

InitServer(envs, keys, limits, windows, opts, telemetry) ==
  /\ browserInstance = NoBrowser
  /\ launched = 0
  /\ browserCloseCalls = [h \in Handles |-> 0]
  /\ crashed = {}
  /\ pc = [r \in Requests |-> "idle"]
  /\ params = [r \in Requests |-> NoParams]
  /\ browser = [r \in Requests |-> NoBrowser]
  /\ context = [r \in Requests |-> NoObject]
  /\ page = [r \in Requests |-> NoObject]
  /\ error = [r \in Requests |-> "none"]
  /\ failedAt = [r \in Requests |-> "none"]
  /\ clip = [r \in Requests |-> FALSE]
  /\ captures = [r \in Requests |-> 0]
  /\ capture = [r \in Requests |-> NoCapture]
  /\ result = [r \in Requests |-> NoResult]
  /\ intercepting = [r \in Requests |-> FALSE]
  /\ loads = [r \in Requests |-> {}]
  /\ contexts = [r \in Requests |-> NoObjectRec]
  /\ pages = [r \in Requests |-> NoObjectRec]
  /\ cpc = [c \in Closers |-> "idle"]
  /\ route = [r \in Requests |-> "none"]
  /\ req = [r \in Requests |-> NoReq]
  /\ res = [r \in Requests |-> NotSent]
  /\ nodeEnv \in envs
  /\ apiKeyEnv \in keys
  /\ timer = [r \in Requests |-> "none"]
  /\ nextCalls = [r \in Requests |-> << >>]
  /\ handled = [r \in Requests |-> 0]
  /\ requests = [k \in IPs |-> NoEntry]
  /\ now = 0
  /\ maxRequests \in limits
  /\ windowMs \in windows
  /\ rateCalls = [ip \in IPs |-> << >>]
  /\ assetOptions \in opts
  /\ apc = "idle"
  /\ routeCalls = 0
  /\ styleTags = << >>
  /\ pauses = 0
  /\ served = {}
  /\ caught = FALSE
  /\ telemetryEnabled \in telemetry
  /\ spc = [c \in Closers |-> "idle"]
  /\ exited = FALSE
  /\ elapsed = [r \in Requests |-> 0]
  /\ metrics = [r \in Requests |-> NoMetrics]
  /\ span = NoSpan
  /\ traced = NoTraced
  /\ wrapped = NoWrapped

\* The process as the test suites start it.
Init == InitServer({"test"}, {API_KEY}, {MaxLimit}, {MaxWindow}, {NullOptions}, {FALSE})

\* The server process in each of the environments it is deployed in, with and without
\* an API_KEY configured.
InitRoute == InitServer(NodeEnvs, {Absent, API_KEY}, {MaxLimit}, {MaxWindow}, {NullOptions}, {FALSE})

\* ------------------------------------------------------------------ getBrowser
\* renderer.js 127-165 and 13-56.  renderHTML runs synchronously into getBrowser's
\* test `if (!browserInstance)` (line 20): with a cached handle getBrowser returns it
\* (line 51), otherwise chromium.launch() is started and awaited (line 29).
CallRenderHTML(r, p) ==
  /\ params' = [params EXCEPT ![r] = p]
  /\ IF browserInstance = NoBrowser
       THEN /\ pc' = [pc EXCEPT ![r] = "launch"]
            /\ UNCHANGED browser
       ELSE /\ pc' = [pc EXCEPT ![r] = "newContext"]
            /\ browser' = [browser EXCEPT ![r] = browserInstance]

\* A caller invokes renderHTML(p) with p from ps.  Requests are numbered in arrival
\* order, and the model follows the executions in which at most two invocations
\* overlap: a request arrives when no two earlier ones are both unsettled.
RenderCallOf(r, ps) ==
  /\ pc[r] = "idle"
  /\ route[r] = "none"
  /\ \A s \in Requests : s < r => pc[s] # "idle"
  /\ \A s, t \in InFlight : s = t \/ s >= r \/ t >= r
  /\ \E p \in ps : CallRenderHTML(r, p)
  /\ UNCHANGED <<browserVars, context, page, error, failedAt, clip, captures, contexts, pages, cpc, routeVars, dataVars>>

\* renderHTML({html, viewport}): no optional step.
RenderCall(r) == RenderCallOf(r, {PlainParams})

\* renderHTML(params) with any params of ParamSet.
RenderCallAny(r) == RenderCallOf(r, ParamSet)

\* renderer.js 29-36, 50-51: chromium.launch() resolved; the handle is stored in
\* browserInstance and returned, with no await in between.
LaunchOk(r) ==
  /\ pc[r] = "launch"
  /\ launched' = launched + 1
  /\ browserInstance' = launched + 1
  /\ browser' = [browser EXCEPT ![r] = launched + 1]
  /\ pc' = [pc EXCEPT ![r] = "newContext"]
  /\ UNCHANGED <<browserCloseCalls, crashed, params, context, page, error, failedAt,
                 clip, captures, contexts, pages, cpc, routeVars, dataVars>>

\* renderer.js 37-45: chromium.launch() rejected; the error is rethrown, nothing is stored.
LaunchFail(r) ==
  /\ pc[r] = "launch"
  /\ Throw(r, "LaunchError")
  /\ UNCHANGED <<browserVars, params, browser, context, page, clip, captures, contexts, pages, cpc, routeVars, captureVars>>

\* ------------------------------------------------------------------ context and page
\* renderer.js 172-190
NewContextOk(r) ==
  /\ pc[r] = "newContext"
  /\ Usable(browser[r])
  /\ contexts' = [contexts EXCEPT ![r] = [created |-> @.created + 1, closeCalls |-> 0,
                                          users |-> {r}]]
  /\ context' = [context EXCEPT ![r] = r]
  /\ pc' = [pc EXCEPT ![r] = "newPage"]
  /\ UNCHANGED <<browserVars, params, browser, page, error, failedAt, clip, captures, pages, cpc, routeVars, dataVars>>

NewContextFail(r) ==
  /\ pc[r] = "newContext"
  /\ Throw(r, FailureOf(browser[r]))
  /\ UNCHANGED <<browserVars, params, browser, context, page, clip, captures, contexts, pages, cpc, routeVars, captureVars>>

\* The context object the invocation's local `context` refers to (renderer.js:159).
ContextOf(r) == context[r]

\* The page object the invocation's local `page` refers to (renderer.js:159).
PageOf(r) == page[r]

\* A method of the context / page held by invocation r is invoked.
UseContext(r) == [contexts EXCEPT ![ContextOf(r)].users = @ \cup {r}]
UsePage(r) == [pages EXCEPT ![PageOf(r)].users = @ \cup {r}]

\* renderer.js 197-211
NewPageOk(r) ==
  /\ pc[r] = "newPage"
  /\ Usable(browser[r])
  /\ pages' = [pages EXCEPT ![r] = [created |-> @.created + 1, closeCalls |-> 0,
                                    users |-> {r}]]
  /\ contexts' = UseContext(r)
  /\ page' = [page EXCEPT ![r] = r]
  /\ pc' = [pc EXCEPT ![r] = "setContent"]
  /\ UNCHANGED <<browserVars, params, browser, context, error, failedAt, clip, captures, cpc, routeVars, dataVars>>

NewPageFail(r) ==
  /\ pc[r] = "newPage"
  /\ contexts' = UseContext(r)
  /\ Throw(r, FailureOf(browser[r]))
  /\ UNCHANGED <<browserVars, params, browser, context, page, clip, captures, pages, cpc, routeVars, captureVars>>

\* ------------------------------------------------------------------ page operations
\* Where renderHTML goes after a step, by the optional parts of params
\* (renderer.js 240, 267, 314).
AfterWait(p) == IF p.clipSelector THEN "clipQuery" ELSE "screenshot"
AfterAssets(p) == IF p.waitForSelector THEN "waitForSelector" ELSE AfterWait(p)
\* A renderer that goes from the content load to the steps after the asset injection.
SkipAssets(p) == AfterAssets(p)

AfterContent(p) == IF p.assets THEN "addAssets" ELSE AfterAssets(p)

\* An awaited call on the invocation's page resolves / rejects with err.
PageOpOk(r, from, to) ==
  /\ pc[r] = from
  /\ Usable(browser[r])
  /\ pages' = UsePage(r)
  /\ pc' = [pc EXCEPT ![r] = to]

PageOpFail(r, from, err) ==
  /\ pc[r] = from
  /\ pages' = UsePage(r)
  /\ Throw(r, err)

\* renderer.js 218-237: page.setContent(htmlContent, {waitUntil: 'networkidle'})
\* assets.js 48-95: a request of the page for an asset file is fulfilled from the
\* supplied bytes by the route handler if it is installed; otherwise it is resolved
\* normally, over the network.
Resolution(r) == IF intercepting[r] THEN "asset" ELSE "network"

\* The requests the document issues while it loads (setContent waits for networkidle):
\* with assets supplied, the document refers to them.
DocumentLoads(r) == IF params[r].assets THEN {Resolution(r)} ELSE {}

SetContentOk(r) ==
  /\ PageOpOk(r, "setContent", AfterContent(params[r]))
  /\ loads' = [loads EXCEPT ![r] = @ \cup DocumentLoads(r)]
  /\ UNCHANGED <<browserVars, params, browser, context, page, error, failedAt, clip, captures,
                 contexts, cpc, routeVars, capture, result, intercepting, elapsed, metrics>>

SetContentFail(r) ==
  /\ pc[r] = "setContent"
  /\ \E err \in TimedFailuresOf(browser[r]) : PageOpFail(r, "setContent", err)
  /\ UNCHANGED <<browserVars, params, browser, context, page, clip, captures, contexts, cpc, routeVars, captureVars>>

\* renderer.js 240-264 with assets.js 12-189: addAssetsToPage catches and logs every
\* error of the interception set-up and of the font injection, and resolves.
\* A caller that lets the error of the asset step through.
AssetsRethrow(r, failed) ==
  IF failed THEN Throw(r, "Error")
  ELSE /\ pc' = [pc EXCEPT ![r] = AfterAssets(params[r])]
       /\ UNCHANGED <<error, failedAt, metrics>>

\* assets.js 176-187: the outer catch logs the error and the promise resolves, whether
\* the step failed or not.
AssetsCatch(r, failed) ==
  /\ pc' = [pc EXCEPT ![r] = AfterAssets(params[r])]
  /\ UNCHANGED <<error, failedAt, metrics>>

AddAssets(r) ==
  /\ pc[r] = "addAssets"
  /\ pages' = UsePage(r)
  /\ \E installed, failed \in BOOLEAN :
       /\ installed => Usable(browser[r])
       /\ ~failed => (installed /\ Usable(browser[r]))
       /\ intercepting' = [intercepting EXCEPT ![r] = installed]
       /\ AssetsCatch(r, failed)
  /\ UNCHANGED <<browserVars, params, browser, context, page, clip, captures, contexts, cpc,
                 routeVars, capture, result, loads, elapsed>>

\* The page issues a later request for an asset file (from a script, a style sheet, a
\* font face) while renderHTML goes on.
PageRequest(r) ==
  /\ pc[r] \in {"waitForSelector", "clipQuery", "clipBox", "screenshot"}
  /\ params[r].assets
  /\ Usable(browser[r])
  /\ Resolution(r) \notin loads[r]
  /\ loads' = [loads EXCEPT ![r] = @ \cup {Resolution(r)}]
  /\ UNCHANGED <<browserVars, pc, params, browser, context, page, error, failedAt, clip,
                 captures, contexts, pages, cpc, routeVars, capture, result, intercepting, elapsed, metrics>>

\* renderer.js 267-290: page.waitForSelector(waitForSelector, {timeout: 5000})
WaitForSelectorOk(r) ==
  /\ PageOpOk(r, "waitForSelector", AfterWait(params[r]))
  /\ UNCHANGED <<browserVars, params, browser, context, page, error, failedAt, clip, captures, contexts, cpc, routeVars, dataVars>>

WaitForSelectorFail(r) ==
  /\ pc[r] = "waitForSelector"
  /\ \E err \in TimedFailuresOf(browser[r]) : PageOpFail(r, "waitForSelector", err)
  /\ UNCHANGED <<browserVars, params, browser, context, page, clip, captures, contexts, cpc, routeVars, captureVars>>

\* renderer.js 314-346: page.$(clipSelector); a missing element or a thrown error
\* (caught at 341) leaves the options as they are.
ClipQuery(r) ==
  /\ pc[r] = "clipQuery"
  /\ pages' = UsePage(r)
  /\ \E found \in BOOLEAN :
       /\ found => Usable(browser[r])
       /\ pc' = [pc EXCEPT ![r] = IF found THEN "clipBox" ELSE "screenshot"]
  /\ elapsed' = [elapsed EXCEPT ![r] = @ + LookupTime]
  /\ UNCHANGED <<browserVars, params, browser, context, page, error, failedAt, clip, captures,
                 contexts, cpc, routeVars, capture, result, intercepting, loads, metrics>>

\* renderer.js 321-334: element.boundingBox(); with a box, options.clip is set.
ClipBox(r) ==
  /\ pc[r] = "clipBox"
  /\ pages' = UsePage(r)
  /\ \E box \in BOOLEAN :
       /\ box => Usable(browser[r])
       /\ clip' = [clip EXCEPT ![r] = box]
  /\ pc' = [pc EXCEPT ![r] = "screenshot"]
  /\ elapsed' = [elapsed EXCEPT ![r] = @ + LookupTime]
  /\ UNCHANGED <<browserVars, params, browser, context, page, error, failedAt, captures,
                 contexts, cpc, routeVars, capture, result, intercepting, loads, metrics>>

\* renderer.js 348-357: page.screenshot(screenshotOptions) resolved.
ScreenshotOk(r) ==
  /\ PageOpOk(r, "screenshot", "version")
  /\ captures' = [captures EXCEPT ![r] = @ + 1]
  /\ \E t \in Durations :
       capture' = [capture EXCEPT ![r] =
                     [options |-> ScreenshotOptions(params[r], clip[r]),
                      buffer |-> Image(r, NoText),
                      renderingTime |-> elapsed[r] + t]]
  /\ UNCHANGED <<browserVars, params, browser, context, page, error, failedAt, clip, contexts, cpc,
                 routeVars, result, intercepting, loads, elapsed, metrics>>

\* A capture engine that tries a failed capture a second time.
ScreenshotRetry(r) ==
  IF captures[r] = 0
    THEN UNCHANGED <<error, failedAt, pc, metrics>>
    ELSE Throw(r, FailureOf(browser[r]))

\* renderer.js 358-364: the capture rejected; the error is rethrown.
ScreenshotThrow(r) == \E err \in TimedFailuresOf(browser[r]) : Throw(r, err)

ScreenshotFail(r) ==
  /\ pc[r] = "screenshot"
  /\ pages' = UsePage(r)
  /\ captures' = [captures EXCEPT ![r] = @ + 1]
  /\ ScreenshotThrow(r)
  /\ UNCHANGED <<browserVars, params, browser, context, page, clip, contexts, cpc, routeVars, captureVars>>

\* renderer.js 374-416: browser.version() resolved; metadata is embedded for PNG only.
\* renderer.js 378-390: screenshotId is a fresh uuid and renderedAt the current instant
\* (both stand as the request's number), browserVersion the version of its browser.
Metadata(r) ==
  [renderedAt |-> r, viewport |-> params[r].viewport, browserVersion |-> browser[r],
   renderingTime |-> capture[r].renderingTime, screenshotId |-> r]

\* renderer.js:419
ContentTypeOf(format) == IF format = "jpeg" THEN "image/jpeg" ELSE "image/png"

VersionOk(r) ==
  /\ pc[r] = "version"
  /\ Usable(browser[r])
  /\ result' = [result EXCEPT ![r] =
                  [imageBuffer |-> capture[r].buffer,
                   metadata |-> Metadata(r),
                   contentType |-> ContentTypeOf(params[r].format)]]
  /\ pc' = [pc EXCEPT ![r] =
              IF params[r].embedMetadata /\ params[r].format = "png"
                THEN "embedMetadata"
                ELSE FinallyEntry(page[r], context[r])]
  /\ metrics' = [metrics EXCEPT ![r] =
                   IF params[r].embedMetadata /\ params[r].format = "png"
                     THEN @
                     ELSE RecordRenderMetrics(@, FALSE)]
  /\ UNCHANGED <<browserVars, params, browser, context, page, error, failedAt, clip, captures,
                 contexts, pages, cpc, routeVars, capture, intercepting, loads, elapsed>>

\* renderer.js 440-446
VersionFail(r) ==
  /\ pc[r] = "version"
  /\ Throw(r, FailureOf(browser[r]))
  /\ UNCHANGED <<browserVars, params, browser, context, page, clip, captures, contexts, pages, cpc, routeVars, captureVars>>

\* JSON.stringify of the metadata record (renderer.js:109): the text holds the keys whose
\* value is defined; a viewport key that is undefined is left out of the text.
StringifyViewport(viewport) ==
  [k \in {key \in ViewportKeys : viewport[key].t # "undefined"} |-> viewport[k]]

\* An embedding that stamps the chunk with the time of the embedding, not of the render.
StringifyStamped(metadata) ==
  [present |-> TRUE,
   json |-> [metadata EXCEPT !.viewport = StringifyViewport(metadata.viewport),
                             !.renderedAt = @ + 1]]

Stringify(metadata) ==
  [present |-> TRUE,
   json |-> [metadata EXCEPT !.viewport = StringifyViewport(metadata.viewport)]]

\* JSON.parse of such a text: a key that is not in the text reads as undefined.
ParseViewport(json) ==
  Viewport(IF "width" \in DOMAIN json THEN json["width"] ELSE Undefined,
           IF "height" \in DOMAIN json THEN json["height"] ELSE Undefined,
           IF "deviceScaleFactor" \in DOMAIN json THEN json["deviceScaleFactor"] ELSE Undefined)
Parse(text) == [text.json EXCEPT !.viewport = ParseViewport(text.json.viewport)]

\* An embedding that returns an empty buffer when the image cannot be decoded.
EmbedOrEmpty(imageBuffer, metadata, decodes) ==
  IF decodes THEN Image(imageBuffer.shot, Stringify(metadata)) ELSE NoImage

\* renderer.js 101-120: embedMetadataInImage.  PNG.sync.read / write either work
\* (decodes), giving the image with the text chunk `metadata`, or throw, and then the
\* original buffer is returned.
EmbedMetadataInImage(imageBuffer, metadata, decodes) ==
  IF decodes THEN Image(imageBuffer.shot, Stringify(metadata)) ELSE imageBuffer

\* renderer.js 395-439 with 101-120: embedMetadataInImage never throws; the result is
\* returned, which enters the finally block.
EmbedMetadata(r) ==
  /\ pc[r] = "embedMetadata"
  /\ \E decodes \in BOOLEAN :
       result' = [result EXCEPT ![r].imageBuffer =
                    EmbedMetadataInImage(capture[r].buffer, result[r].metadata, decodes)]
  /\ pc' = [pc EXCEPT ![r] = FinallyEntry(page[r], context[r])]
  /\ metrics' = [metrics EXCEPT ![r] = RecordRenderMetrics(@, FALSE)]
  /\ UNCHANGED <<browserVars, params, browser, context, page, error, failedAt, clip, captures,
                 contexts, pages, cpc, routeVars, capture, intercepting, loads, elapsed>>

\* ------------------------------------------------------------------ teardown
\* renderer.js 469-471: `if (page) await page.close();` resolved.
PageCloseOk(r) ==
  /\ pc[r] = "pageClose"
  /\ pages' = [UsePage(r) EXCEPT ![PageOf(r)].closeCalls = @ + 1]
  /\ pc' = [pc EXCEPT ![r] = FinallyEntry(NoObject, context[r])]
  /\ UNCHANGED <<browserVars, params, browser, context, page, error, failedAt, clip, captures, contexts, cpc, routeVars, dataVars>>

\* What follows a rejected page.close(): the rejection leaves the finally block at
\* line 470, so line 472-474 is not reached and the call rejects.
AfterPageCloseFail(r) == "done"

PageCloseFail(r) ==
  /\ pc[r] = "pageClose"
  /\ pages' = [UsePage(r) EXCEPT ![PageOf(r)].closeCalls = @ + 1]
  /\ error' = [error EXCEPT ![r] = "Error"]
  /\ failedAt' = [failedAt EXCEPT ![r] = pc[r]]
  /\ pc' = [pc EXCEPT ![r] = AfterPageCloseFail(r)]
  /\ UNCHANGED <<browserVars, params, browser, context, page, clip, captures, contexts, cpc, routeVars, dataVars>>

\* renderer.js 472-474: `if (context) await context.close();`
ContextCloseOk(r) ==
  /\ pc[r] = "contextClose"
  /\ contexts' = [UseContext(r) EXCEPT ![ContextOf(r)].closeCalls = @ + 1]
  /\ pc' = [pc EXCEPT ![r] = "done"]
  /\ UNCHANGED <<browserVars, params, browser, context, page, error, failedAt, clip, captures, pages, cpc, routeVars, dataVars>>

ContextCloseFail(r) ==
  /\ pc[r] = "contextClose"
  /\ contexts' = [UseContext(r) EXCEPT ![ContextOf(r)].closeCalls = @ + 1]
  /\ error' = [error EXCEPT ![r] = "Error"]
  /\ failedAt' = [failedAt EXCEPT ![r] = pc[r]]
  /\ pc' = [pc EXCEPT ![r] = "done"]
  /\ UNCHANGED <<browserVars, params, browser, context, page, clip, captures, pages, cpc, routeVars, dataVars>>

\* The promise of renderHTML settles (resolved without an error, rejected with one) and
\* the invocation's locals go out of scope; its context and page are no longer tracked.
Release(r) ==
  /\ pc[r] = "done"
  /\ pc' = [pc EXCEPT ![r] = "settled"]
  /\ params' = [params EXCEPT ![r] = NoParams]
  /\ browser' = [browser EXCEPT ![r] = NoBrowser]
  /\ context' = [context EXCEPT ![r] = NoObject]
  /\ page' = [page EXCEPT ![r] = NoObject]
  /\ error' = [error EXCEPT ![r] = "none"]
  /\ failedAt' = [failedAt EXCEPT ![r] = "none"]
  /\ clip' = [clip EXCEPT ![r] = FALSE]
  /\ captures' = [captures EXCEPT ![r] = 0]
  /\ capture' = [capture EXCEPT ![r] = NoCapture]
  /\ result' = [result EXCEPT ![r] = NoResult]
  /\ intercepting' = [intercepting EXCEPT ![r] = FALSE]
  /\ loads' = [loads EXCEPT ![r] = {}]
  /\ elapsed' = [elapsed EXCEPT ![r] = 0]
  /\ metrics' = [metrics EXCEPT ![r] = NoMetrics]
  /\ contexts' = [contexts EXCEPT ![r] = NoObjectRec]
  /\ pages' = [pages EXCEPT ![r] = NoObjectRec]

\* A direct caller of renderHTML receives the result or the error.
Settle(r) ==
  /\ route[r] = "none"
  /\ Release(r)
  /\ UNCHANGED <<browserVars, cpc, routeVars>>

\* ------------------------------------------------------------------ environment
\* The browser process behind the cached handle crashes or disconnects.
BrowserCrash(h) ==
  /\ h \in 1..launched
  /\ Usable(h)
  /\ h = browserInstance
  /\ crashed' = crashed \cup {h}
  /\ UNCHANGED <<browserInstance, launched, browserCloseCalls, pc, params,
                 browser, context, page, error, failedAt, clip, captures, contexts,
                 pages, cpc, routeVars, dataVars>>

\* ------------------------------------------------------------------ closeBrowser
\* renderer.js 484-486: `if (browserInstance) { await browserInstance.close();`
\* close() is invoked on the cached handle and awaited; with no handle the call returns.
CloseBrowser(c) ==
  IF browserInstance # NoBrowser
    THEN /\ browserCloseCalls' = [browserCloseCalls EXCEPT ![browserInstance] = @ + 1]
         /\ cpc' = [cpc EXCEPT ![c] = "closing"]
    ELSE UNCHANGED <<browserCloseCalls, cpc>>

CloseBrowserCall(c) ==
  /\ cpc[c] = "idle"
  /\ CloseBrowser(c)
  /\ UNCHANGED <<browserInstance, launched, crashed, pc, params, browser, context, page,
                 error, failedAt, clip, captures, contexts, pages, routeVars, dataVars>>

\* renderer.js 487: after the await, `browserInstance = null;`
CloseBrowserResume(c) ==
  /\ cpc[c] = "closing"
  /\ browserInstance' = NoBrowser
  /\ cpc' = [cpc EXCEPT ![c] = "idle"]
  /\ UNCHANGED <<launched, browserCloseCalls, crashed, pc, params, browser,
                 context, page, error, failedAt, clip, captures, contexts, pages, routeVars, dataVars>>

\* ------------------------------------------------------------------ POST /render
\* middleware/error.js 31-51: errorHandler sends err.status || 500 with the envelope.
\* On a response that has been sent already, res.status(..).json(..) throws
\* (ERR_HTTP_HEADERS_SENT) and nothing more is written.
ErrorHandler(r, err) ==
  /\ handled' = [handled EXCEPT ![r] = @ + 1]
  /\ res' = [res EXCEPT ![r] =
               IF @.sent THEN @
               ELSE ErrorResponse(err.status, Envelope(err, nodeEnv # "production"))]

\* A middleware or handler of the chain ends with next(err): the error goes to
\* errorHandler and the chain is done.
NextError(r, err) ==
  /\ ErrorHandler(r, err)
  /\ route' = [route EXCEPT ![r] = "responded"]

\* error.js 64-78: the timeout middleware, first of the chain (server: app.use(timeout)),
\* starts its timer and calls next().
TimeoutEnter(r) ==
  /\ timer' = [timer EXCEPT ![r] = "armed"]
  /\ nextCalls' = [nextCalls EXCEPT ![r] = Append(@, NoApiError)]

\* A client sends POST /render?apiKey=k with body b.  The client of the model sends its
\* requests one after the other: a request is sent when the earlier ones are finished.
Receive(r) ==
  /\ route[r] = "none"
  /\ pc[r] = "idle"
  /\ \A s \in Requests : s < r => route[s] = "finished"
  /\ \E k \in ApiKeys, m \in Messages :
       /\ req' = [req EXCEPT ![r] = [path |-> m.path, apiKey |-> k, body |-> m.body]]
       /\ route' = [route EXCEPT ![r] = IF m.path \in {"/render", "/render/metadata"}
                                          THEN "authenticateApiKey"
                                          ELSE "notFound"]
  /\ TimeoutEnter(r)
  /\ UNCHANGED <<browserVars, pc, params, browser, context, page, error, failedAt, clip, captures,
                 contexts, pages, cpc, res, envVars, wrapperVars, limitVars, assetVars, signalVars, handled, dataVars>>

\* An authentication that lets every request pass when no API_KEY is configured.
AuthenticateIfConfigured(apiKey, expectedApiKey) ==
  IF ~TruthyString(expectedApiKey) THEN NoApiError
  ELSE IF ~TruthyString(apiKey) THEN ApiError("API key is required", 401)
  ELSE IF apiKey # expectedApiKey THEN ApiError("Invalid API key", 401)
  ELSE NoApiError

\* security.js authenticateApiKey: the ApiError passed to next, NoApiError for next().
Authenticate(apiKey, expectedApiKey) ==
  IF ~TruthyString(expectedApiKey)
    THEN ApiError("Server authentication configuration error", 500)
  ELSE IF ~TruthyString(apiKey) THEN ApiError("API key is required", 401)
  ELSE IF apiKey # expectedApiKey THEN ApiError("Invalid API key", 401)
  ELSE NoApiError

AuthenticateStatus(apiKey, expectedApiKey) == Authenticate(apiKey, expectedApiKey).status

AuthenticateApiKey(r) ==
  /\ route[r] = "authenticateApiKey"
  /\ IF AuthenticateStatus(req[r].apiKey, apiKeyEnv) # 0
       THEN NextError(r, Authenticate(req[r].apiKey, apiKeyEnv))
       ELSE /\ route' = [route EXCEPT ![r] = IF req[r].path = "/render"
                                               THEN "validatePayload"
                                               ELSE "metadata"]
            /\ UNCHANGED <<res, handled>>
  /\ UNCHANGED <<browserVars, pc, params, browser, context, page, error, failedAt, clip, captures,
                 contexts, pages, cpc, req, envVars, wrapperVars, limitVars, assetVars, signalVars, timeoutVars, dataVars>>

\* security.js validatePayload, the size checks: the limits of a viewport side and of
\* deviceScaleFactor.
MaxViewportSize == 5000
MaxDeviceScaleFactor == 5

BadSide(x) == x.t # "number" \/ x.v <= 0 \/ x.v > MaxViewportSize

BadScale(d) == Truthy(d) /\ (d.t # "number" \/ d.v <= 0 \/ d.v > MaxDeviceScaleFactor)

MaliciousPattern(html) == html = "<script>process.env</script>"

ExceedsMaxSize(contentLength) == contentLength = "11MB"

\* security.js validatePayload: 0 for next(), otherwise the status of the ApiError.
ValidateStatus(b) ==
  IF ~TruthyString(b.html) THEN 400
  ELSE IF b.viewport.t # "undefined" /\ BadSide(b.viewport.width) THEN 400
  ELSE IF b.viewport.t # "undefined" /\ BadSide(b.viewport.height) THEN 400
  ELSE IF b.viewport.t # "undefined" /\ BadScale(b.viewport.deviceScaleFactor) THEN 400
  ELSE IF MaliciousPattern(b.html) THEN 400
  ELSE IF ExceedsMaxSize(b.contentLength) THEN 413
  ELSE 0

ValidatePayload(r) ==
  /\ route[r] = "validatePayload"
  /\ IF ValidateStatus(req[r].body) # 0
       THEN NextError(r, ApiError("Invalid payload", ValidateStatus(req[r].body)))
       ELSE /\ route' = [route EXCEPT ![r] = "handler"]
            /\ UNCHANGED <<res, handled>>
  /\ UNCHANGED <<browserVars, pc, params, browser, context, page, error, failedAt, clip, captures,
                 contexts, pages, cpc, req, envVars, wrapperVars, limitVars, assetVars, signalVars, timeoutVars, dataVars>>

\* routes/render.js 94-106: the destructuring defaults apply to undefined fields only.
FormatOf(b) == IF b.format = Absent THEN "png" ELSE b.format
QualityOf(b) == IF b.quality.t = "undefined" THEN DefaultQuality ELSE b.quality.v
ViewportOf(b) == IF b.viewport.t = "undefined" THEN DefaultViewport ELSE b.viewport

\* routes/render.js 133 and 153: the handler's own checks of format and quality.
MinQuality == 1
MaxQuality == 100
InvalidFormat(format) == TruthyString(format) /\ format \notin {"png", "jpeg"}
InvalidQuality(format, quality) ==
  format = "jpeg" /\ (quality < MinQuality \/ quality > MaxQuality)

\* routes/render.js 184-196: the params the handler passes to renderHTML.
RenderParams(b) ==
  [assets |-> b.assets, waitForSelector |-> b.waitForSelector,
   clipSelector |-> b.clipSelector, format |-> FormatOf(b), quality |-> QualityOf(b),
   embedMetadata |-> TRUE,
   viewport |-> ViewportOf(b)]

\* routes/render.js 87-196: the handler up to its await of renderHTML.  A format or
\* quality that is not valid is answered 400 directly; otherwise renderHTML is called.
Handler(r) ==
  /\ route[r] = "handler"
  /\ pc[r] = "idle"
  /\ IF \/ InvalidFormat(FormatOf(req[r].body))
        \/ InvalidQuality(FormatOf(req[r].body), QualityOf(req[r].body))
       THEN /\ res' = [res EXCEPT ![r] =
                         ErrorResponse(400, Envelope(ApiError("Invalid format or quality", 400),
                                                     FALSE))]
            /\ route' = [route EXCEPT ![r] = "responded"]
            /\ UNCHANGED <<pc, params, browser>>
       ELSE /\ CallRenderHTML(r, RenderParams(req[r].body))
            /\ route' = [route EXCEPT ![r] = "renderHTML"]
            /\ UNCHANGED res
  /\ UNCHANGED <<browserVars, context, page, error, failedAt, clip, captures, contexts, pages,
                 cpc, req, envVars, wrapperVars, limitVars, assetVars, signalVars, timeoutVars, handled, dataVars>>

\* A handler that passes every error to errorHandler as it is.
StatusAlways500(err) == 500

\* routes/render.js 238-262 with errorHandler: the status for a rejected renderHTML.
StatusOfError(err) == IF err = "TimeoutError" THEN 408 ELSE 500

\* routes/render.js:103: the destructuring default of responseFormat.
ResponseFormatOf(b) == IF b.responseFormat = Absent THEN "image" ELSE b.responseFormat

\* routes/render.js 213-217: res.json({image, contentType, metadata}) with the image
\* as base64 text; the metadata is serialised with the document.
JsonResponse(rendered) ==
  [sent |-> TRUE, status |-> 200, headers |-> JsonHeaders,
   body |-> [kind |-> "json", error |-> NoError, image |-> rendered.imageBuffer,
             encoding |-> "base64", contentType |-> rendered.contentType,
             metadata |-> Stringify(rendered.metadata).json]]

\* routes/render.js 219-234: the headers are set from the result and its metadata, one
\* X-Viewport-* header per entry of metadata.viewport, and the buffer is sent.
ImageResponse(rendered) ==
  [sent |-> TRUE, status |-> 200,
   headers |-> [contentType |-> rendered.contentType,
                screenshotId |-> HeaderOf(rendered.metadata.screenshotId),
                renderingTime |-> HeaderOf(rendered.metadata.renderingTime),
                browserVersion |-> HeaderOf(rendered.metadata.browserVersion),
                renderedAt |-> HeaderOf(rendered.metadata.renderedAt),
                viewport |-> ViewportHeaders(rendered.metadata.viewport)],
   body |-> [NoBody EXCEPT !.kind = "bytes", !.image = rendered.imageBuffer, !.encoding = "raw"]]

\* A handler that answers with JSON whenever responseFormat is not 'image'.
ResponseUnlessImage(responseFormat, rendered) ==
  IF responseFormat # "image" THEN JsonResponse(rendered) ELSE ImageResponse(rendered)

\* routes/render.js 210-235: the response to a render that returned a result.
ResponseOf(responseFormat, rendered) ==
  IF responseFormat = "json" THEN JsonResponse(rendered) ELSE ImageResponse(rendered)

\* routes/render.js 198-262: renderHTML settled; the result is sent with 200, a
\* TimeoutError becomes 408, any other error goes to errorHandler as it is.
HandlerResume(r) ==
  /\ route[r] = "renderHTML"
  /\ Release(r)
  /\ IF error[r] = "none"
       THEN IF res[r].sent
              THEN NextError(r, ApiError("Cannot set headers after they are sent", 500))
              ELSE /\ res' = [res EXCEPT ![r] =
                                ResponseOf(ResponseFormatOf(req[r].body), result[r])]
                   /\ route' = [route EXCEPT ![r] = "responded"]
                   /\ UNCHANGED handled
       ELSE NextError(r, ApiError(error[r], StatusOfError(error[r])))
  /\ UNCHANGED <<browserVars, cpc, req, envVars, wrapperVars, limitVars, assetVars, signalVars, timeoutVars>>

\* routes/render.js 274-336: POST /render/metadata after authenticateApiKey.  Without
\* image data an ApiError 400 goes to errorHandler; with it the handler answers 501
\* itself, with {error: '<text>'}.
MetadataHandler(r) ==
  /\ route[r] = "metadata"
  /\ IF ~TruthyString(req[r].body.image)
       THEN NextError(r, ApiError("Image data is required", 400))
       ELSE /\ res' = [res EXCEPT ![r] = ErrorResponse(501, StringError)]
            /\ route' = [route EXCEPT ![r] = "responded"]
            /\ UNCHANGED handled
  /\ UNCHANGED <<browserVars, pc, params, browser, context, page, error, failedAt, clip, captures,
                 contexts, pages, cpc, req, envVars, wrapperVars, limitVars, assetVars, signalVars, timeoutVars, dataVars>>

\* error.js 56-59 with the server's `app.use(notFound)`: no route matched, an ApiError
\* 404 goes to errorHandler.
NotFound(r) ==
  /\ route[r] = "notFound"
  /\ NextError(r, ApiError("Not found", 404))
  /\ UNCHANGED <<browserVars, pc, params, browser, context, page, error, failedAt, clip, captures,
                 contexts, pages, cpc, req, envVars, wrapperVars, limitVars, assetVars, signalVars, timeoutVars, dataVars>>

\* A timeout middleware that leaves its timer running when the response is finished.
KeepTimer(t) == t

\* error.js 72-74: res.on('finish', () => clearTimeout(timeoutId)).
OnFinish(t) == IF t = "armed" THEN "cleared" ELSE t

\* error.js 66-69: the timer fires while the handler awaits renderHTML, or while a
\* response that has been sent is not finished yet; next(err) takes the 408 error to
\* errorHandler.
TimeoutFire(r) ==
  /\ timer[r] = "armed"
  /\ route[r] \in {"renderHTML", "responded", "finished"}
  /\ timer' = [timer EXCEPT ![r] = "fired"]
  /\ nextCalls' = [nextCalls EXCEPT ![r] = Append(@, ApiError("Request timeout", 408))]
  /\ ErrorHandler(r, ApiError("Request timeout", 408))
  /\ UNCHANGED <<browserVars, pc, params, browser, context, page, error, failedAt, clip, captures,
                 contexts, pages, cpc, route, req, envVars, wrapperVars, limitVars, assetVars, signalVars, dataVars>>

\* The response has been written (its 'finish' event); the request and response
\* objects are dropped.
Finish(r) ==
  /\ route[r] = "responded"
  /\ route' = [route EXCEPT ![r] = "finished"]
  /\ req' = [req EXCEPT ![r] = NoReq]
  /\ res' = [res EXCEPT ![r] = NotSent]
  /\ timer' = [timer EXCEPT ![r] = OnFinish(@)]
  /\ UNCHANGED <<browserVars, pc, params, browser, context, page, error, failedAt, clip, captures,
                 contexts, pages, cpc, envVars, wrapperVars, limitVars, assetVars, signalVars, nextCalls, handled, dataVars>>

\* ------------------------------------------------------------------ specification
\* The steps of renderHTML every invocation goes through.
LifecycleStep(r) ==
  \/ LaunchOk(r) \/ LaunchFail(r)
  \/ NewContextOk(r) \/ NewContextFail(r)
  \/ NewPageOk(r) \/ NewPageFail(r)
  \/ SetContentOk(r) \/ SetContentFail(r)
  \/ ScreenshotOk(r) \/ ScreenshotFail(r)
  \/ VersionOk(r) \/ VersionFail(r)
  \/ EmbedMetadata(r)
  \/ PageCloseOk(r) \/ PageCloseFail(r)
  \/ ContextCloseOk(r) \/ ContextCloseFail(r)

\* The steps the optional params add (assets or fonts, waitForSelector, clipSelector).
OptionalStep(r) ==
  \/ AddAssets(r)
  \/ WaitForSelectorOk(r) \/ WaitForSelectorFail(r)
  \/ ClipQuery(r) \/ ClipBox(r)

\* ------------------------------------------------------------------ rateLimit
\* part_019 187-232.  The middleware is synchronous: each call reads Date.now() once and
\* runs to its next() without interruption, and so does the cleanup callback.
\* The key of the Map: req.ip.
SharedKey(ip) == "A"

KeyOf(ip) == ip

\* A limiter whose window ends as soon as windowMs have passed.
ExpiredAtEnd(entry, t) == t - entry.timestamp >= windowMs

\* `now - entry.timestamp > windowMs`: the entry's window has passed.
Expired(entry, t) == t - entry.timestamp > windowMs

AtLimit(count) == count >= maxRequests

\* `entry.count > maxRequests`
OverLimit(count) == count > maxRequests

TooManyRequests == ApiError("Too many requests", 429)

\* The middleware's body for the entry it finds at instant t: the entry it leaves in the
\* Map and what it passes to next().
Limit(entry, t) ==
  IF ~entry.has
    THEN [entry |-> [has |-> TRUE, count |-> 1, timestamp |-> t], err |-> NoApiError]
  ELSE IF Expired(entry, t)
    THEN [entry |-> [entry EXCEPT !.count = 1, !.timestamp = t], err |-> NoApiError]
  ELSE [entry |-> [entry EXCEPT !.count = @ + 1],
        err |-> IF OverLimit(entry.count + 1) THEN TooManyRequests ELSE NoApiError]

\* Everything but the rate limiter and the asset injection of a single page.
serverVars == <<browserVars, pc, params, browser, context, page, error, failedAt, clip,
                captures, contexts, pages, cpc, route, req, res, envVars, wrapperVars, timeoutVars,
                handled, dataVars, signalVars>>

\* One request from the address ip passes through the middleware.
RateLimit(ip) ==
  /\ Len(rateCalls[ip]) < MaxCalls
  /\ LET limited == Limit(requests[KeyOf(ip)], now) IN
       /\ requests' = [requests EXCEPT ![KeyOf(ip)] = limited.entry]
       /\ rateCalls' = [rateCalls EXCEPT ![ip] = Append(@, [at |-> now, err |-> limited.err])]
  /\ UNCHANGED <<serverVars, assetVars, now, maxRequests, windowMs>>

\* The setInterval callback: deletes the entries whose window has passed.
Cleanup ==
  /\ requests' = [k \in IPs |-> IF requests[k].has /\ Expired(requests[k], now)
                                  THEN NoEntry ELSE requests[k]]
  /\ UNCHANGED <<serverVars, assetVars, now, maxRequests, windowMs, rateCalls>>

\* Time passes.
Tick ==
  /\ now < MaxNow
  /\ now' = now + 1
  /\ UNCHANGED <<serverVars, assetVars, requests, maxRequests, windowMs, rateCalls>>

\* The rate limiter alone, created with each limit and window, under requests of two
\* addresses, the passing of time and the periodic cleanup.
InitRateLimit == InitServer({"test"}, {API_KEY}, 1..MaxLimit, 1..MaxWindow, {NullOptions}, {FALSE})

NextRateLimit ==
  \/ \E ip \in IPs : RateLimit(ip)
  \/ Cleanup
  \/ Tick

SpecRateLimit == InitRateLimit /\ [][NextRateLimit]_vars

\* ------------------------------------------------------------------ addAssetsToPage
\* assets.js 12-189 on one page.  A string is a sequence of tokens: "/", ".", "?" and
\* "#" are tokens of their own, every other token is free of them.
\* s.split(sep).pop(): what follows the last sep of s (all of s without a sep).
Pop(s, sep) ==
  LET seps == {i \in 1..Len(s) : s[i] = sep}
      last == IF seps = {} THEN 0 ELSE CHOOSE i \in seps : \A j \in seps : j <= i
  IN SubSeq(s, last + 1, Len(s))

\* assets.js 54: `url.split('/').pop()`, of the whole URL.
FileNameOf(url) == Pop(url, "/")

\* String.prototype.toLowerCase on the extensions that occur.
ToLowerCase(tok) == IF tok = "PNG" THEN "png" ELSE tok

\* assets.js 198-211
MimeTypes ==
  [png |-> "image/png", jpg |-> "image/jpeg", jpeg |-> "image/jpeg", gif |-> "image/gif",
   svg |-> "image/svg+xml", webp |-> "image/webp", woff |-> "font/woff",
   woff2 |-> "font/woff2", ttf |-> "font/ttf", otf |-> "font/otf",
   eot |-> "application/vnd.ms-fontobject"]

\* mimeTypes is an object literal: `mimeTypes[ext]` also finds the properties it
\* inherits from Object.prototype, whose values are truthy and no strings.
ObjectPrototype == {"constructor", "__proto__"}

\* assets.js 196-212: `filename.split('.').pop().toLowerCase()` is the whole name when
\* the name has no dot.
GetMimeType(filename) ==
  LET ext == Pop(filename, ".") IN
    IF Len(ext) = 1 /\ ToLowerCase(ext[1]) \in DOMAIN MimeTypes
      THEN MimeTypes[ToLowerCase(ext[1])]
    ELSE IF Len(ext) = 1 /\ ToLowerCase(ext[1]) \in ObjectPrototype
      THEN "[object]"
    ELSE "application/octet-stream"

\* Buffer.from(base64Data, 'base64') on the data that occur.
Base64Decode(data) ==
  CASE data = "aGk=" -> "hi"
    [] data = "eW8=" -> "yo"
    [] OTHER -> ""

\* assets[fileName]: the value of the key, undefined without it.  An assets object is a
\* set of [key, data] members with distinct keys.
Lookup(assets, fileName) ==
  IF \E a \in assets : a.key = fileName
    THEN (CHOOSE a \in assets : a.key = fileName).data
    ELSE Absent

\* route.continue(): the request goes on unmodified.  What the handler did with a
\* request is recorded with the numbers of its route.fulfill() and route.continue()
\* invocations.
Continued ==
  [outcome |-> "continued", status |-> 0, contentType |-> Absent, body |-> "",
   fulfillCalls |-> 0, continueCalls |-> 1]

\* assets.js 47-98: the route handler on a request for url; fulfilled tells whether
\* route.fulfill() resolves (the inner catch continues the request when it rejects).
RouteHandler(assets, url, fulfilled) ==
  LET fileName == FileNameOf(url) IN
    IF TruthyString(Lookup(assets, fileName))
      THEN IF fulfilled
             THEN [outcome |-> "fulfilled", status |-> 200,
                   contentType |-> GetMimeType(fileName),
                   body |-> Base64Decode(Lookup(assets, fileName)),
                   fulfillCalls |-> 1, continueCalls |-> 0]
             ELSE [Continued EXCEPT !.outcome = "continuedAfterError", !.fulfillCalls = 1]
      ELSE Continued

\* assets.js 140-141: `font.weight || 'normal'`, `font.style || 'normal'`
WeightAsGiven(font) == font.weight

WeightOf(font) == IF TruthyString(font.weight) THEN font.weight ELSE "normal"

StyleOf(font) == IF TruthyString(font.style) THEN font.style ELSE "normal"

\* assets.js 135-147: the CSS text is the @font-face rules of the entries, joined.
FontFaceCSS(fonts) ==
  [i \in 1..Len(fonts) |->
     [family |-> fonts[i].name, weight |-> WeightOf(fonts[i]), style |-> StyleOf(fonts[i]),
      src |-> fonts[i].data]]

\* The URLs the page requests, the assets objects and the fonts lists of the callers.
Origin == <<"http:", "/", "/", "host", "/">>

LogoPng == <<"logo", ".", "png">>

Urls ==
  {Origin \o LogoPng,
   Origin \o LogoPng \o <<"?", "v=1">>,
   Origin \o <<"img", "/", "logo", ".", "PNG">>,
   Origin \o <<"style", ".", "css">>,
   Origin \o <<"a", ".", "png", "?", "next=", "/">> \o LogoPng,
   Origin \o <<"png">>,
   Origin \o <<"lib", ".", "constructor">>,
   Origin}

AssetObjects ==
  {{},
   {[key |-> LogoPng, data |-> "aGk="]},
   {[key |-> LogoPng, data |-> ""]},
   {[key |-> <<"logo", ".", "PNG">>, data |-> "aGk="],
    [key |-> <<"style", ".", "css">>, data |-> "eW8="]},
   {[key |-> <<"png">>, data |-> "aGk="],
    [key |-> <<"lib", ".", "constructor">>, data |-> "eW8="]}}

Font(name, weight, style) ==
  [name |-> name, data |-> "d09GMg==", weight |-> weight, style |-> style]

FontLists ==
  {<< >>,
   <<Font("TestFont", Absent, Absent)>>,
   <<Font("TestFont", "400", "normal"), Font("TestFont", "700", "italic")>>,
   <<Font("Other", "700", Absent), Font("TestFont", Absent, "italic")>>,
   <<Font("TestFont", "400", "normal"), Font("TestFont", "700", "italic"),
     Font("TestFont", Absent, Absent)>>}

OptionSet ==
  {NullOptions} \cup {[given |-> TRUE, assets |-> a, fonts |-> f] : a \in AssetObjects, f \in FontLists}

\* assets.js 26 and 114: the guards of the two blocks.
HasAssets == assetOptions.assets # {}

HasFonts == Len(assetOptions.fonts) > 0

\* renderer.js 240-264: addAssetsToPage(page, options) is called and runs to its first
\* await.
AddAssetsToPage ==
  /\ apc = "idle"
  /\ apc' = IF HasAssets THEN "route" ELSE IF HasFonts THEN "addStyleTag" ELSE "done"
  /\ UNCHANGED <<serverVars, limitVars, assetOptions, routeCalls, styleTags, pauses, served,
                 caught>>

\* assets.js 47: await page.route('**/*', handler)
RouteInstall ==
  /\ apc = "route"
  /\ \/ /\ routeCalls' = routeCalls + 1
        /\ apc' = IF HasFonts THEN "addStyleTag" ELSE "done"
        /\ UNCHANGED caught
     \/ /\ caught' = TRUE
        /\ apc' = "done"
        /\ UNCHANGED routeCalls
  /\ UNCHANGED <<serverVars, limitVars, assetOptions, styleTags, pauses, served>>

\* assets.js 154: await page.addStyleTag({content: fontFaceCSS})
AddStyleTag ==
  /\ apc = "addStyleTag"
  /\ \/ /\ styleTags' = Append(styleTags, FontFaceCSS(assetOptions.fonts))
        /\ apc' = "waitForTimeout"
        /\ UNCHANGED caught
     \/ /\ caught' = TRUE
        /\ apc' = "done"
        /\ UNCHANGED styleTags
  /\ UNCHANGED <<serverVars, limitVars, assetOptions, routeCalls, pauses, served>>

\* assets.js 159: await page.waitForTimeout(50)
WaitForTimeout ==
  /\ apc = "waitForTimeout"
  /\ pauses' = pauses + 1
  /\ apc' = "done"
  /\ caught' \in {caught, TRUE}
  /\ UNCHANGED <<serverVars, limitVars, assetOptions, routeCalls, styleTags, served>>

\* The page requests url and the installed handler intercepts the request.
Intercept(url) ==
  /\ routeCalls > 0
  /\ \A s \in served : s.url # url
  /\ \E fulfilled \in BOOLEAN :
       served' = served \cup {[url |-> url,
                               did |-> RouteHandler(assetOptions.assets, url, fulfilled)]}
  /\ UNCHANGED <<serverVars, limitVars, assetOptions, apc, routeCalls, styleTags, pauses,
                 caught>>

\* addAssetsToPage on one page, for each of the options, with the page's calls
\* resolving or rejecting and the page requesting each of the URLs.
InitAssets == InitServer({"test"}, {API_KEY}, {MaxLimit}, {MaxWindow}, OptionSet, {FALSE})

NextAssets ==
  \/ AddAssetsToPage
  \/ RouteInstall
  \/ AddStyleTag
  \/ WaitForTimeout
  \/ \E url \in Urls : Intercept(url)

SpecAssets == InitAssets /\ [][NextAssets]_vars

\* ------------------------------------------------------------------ signals
\* renderer.js 491-500 and part_014 76-109: the renderer's module and the server each
\* register a handler of SIGTERM and of SIGINT.  Node runs the handlers of a signal one
\* after the other, each up to its first await; process.exit() ends the process at
\* once, before any handler that has not run yet.
\* The server's handler up to its first await: with telemetry it awaits
\* shutdownTelemetry(), without it it calls process.exit(0).
ServerHandler(c) ==
  IF telemetryEnabled
    THEN /\ spc' = [spc EXCEPT ![c] = "shutdownTelemetry"]
         /\ UNCHANGED exited
    ELSE /\ spc' = [spc EXCEPT ![c] = "exit"]
         /\ exited' = TRUE

\* The signal c is delivered to the running process; the renderer's handler runs
\* before or after the server's.
Signal(c) ==
  /\ ~exited
  /\ cpc[c] = "idle" /\ spc[c] = "idle"
  /\ ServerHandler(c)
  /\ \E rendererFirst \in BOOLEAN :
       IF rendererFirst \/ telemetryEnabled
         THEN CloseBrowser(c)
         ELSE UNCHANGED <<browserCloseCalls, cpc>>
  /\ UNCHANGED <<browserInstance, launched, crashed, pc, params, browser, context, page,
                 error, failedAt, clip, captures, contexts, pages, route, req, res, envVars, wrapperVars,
                 limitVars, assetVars, telemetryEnabled, timeoutVars, handled, dataVars>>

\* part_014 83-91: shutdownTelemetry() has settled (resolved, or rejected and logged):
\* process.exit(0).
ShutdownTelemetry(c) ==
  /\ ~exited
  /\ spc[c] = "shutdownTelemetry"
  /\ spc' = [spc EXCEPT ![c] = "exit"]
  /\ exited' = TRUE
  /\ UNCHANGED <<browserVars, pc, params, browser, context, page, error, failedAt, clip,
                 captures, contexts, pages, cpc, route, req, res, envVars, wrapperVars, limitVars,
                 assetVars, telemetryEnabled, timeoutVars, handled, dataVars>>

\* The server process with a browser in use, up to its exit: render calls, the two
\* signals, with and without telemetry.
InitSignal ==
  InitServer(NodeEnvs, {API_KEY}, {MaxLimit}, {MaxWindow}, {NullOptions}, BOOLEAN)

\* A step of a render, and the end of a closeBrowser call, in the running process.
RenderStep(r) == ~exited /\ (RenderCall(r) \/ LifecycleStep(r) \/ Settle(r))

CloseResolved(c) == ~exited /\ CloseBrowserResume(c)

NextSignal ==
  \/ \E r \in Requests : RenderStep(r)
  \/ \E c \in Closers : Signal(c) \/ ShutdownTelemetry(c) \/ CloseResolved(c)

SpecSignal == InitSignal /\ [][NextSignal]_vars

\* The renderer under direct calls of renderHTML({html, viewport}) and closeBrowser (and
\* the signal handlers), with a browser that may crash.
Next ==
  \/ \E r \in Requests : RenderCall(r) \/ LifecycleStep(r) \/ Settle(r)
  \/ \E h \in Handles : BrowserCrash(h)
  \/ \E c \in Closers : CloseBrowserCall(c) \/ CloseBrowserResume(c)

Spec == Init /\ [][Next]_vars

\* The renderer under render requests alone, with every optional step and a browser
\* that stays up: no closeBrowser call, no signal, no crash (every Playwright call may
\* still reject).
NextRender ==
  \/ \E r \in Requests : RenderCallAny(r) \/ LifecycleStep(r) \/ OptionalStep(r) \/ Settle(r)

SpecRender == Init /\ [][NextRender]_vars

\* The steps of a POST /render request through the middleware chain and the handler.
RouteStep(r) ==
  \/ Receive(r)
  \/ AuthenticateApiKey(r)
  \/ ValidatePayload(r)
  \/ Handler(r)
  \/ HandlerResume(r)
  \/ MetadataHandler(r)
  \/ NotFound(r)
  \/ TimeoutFire(r)
  \/ Finish(r)

\* The server under POST /render requests, with a browser that may crash.
NextRoute ==
  \/ \E r \in Requests : RouteStep(r) \/ LifecycleStep(r) \/ OptionalStep(r) \/ PageRequest(r)
  \/ \E h \in Handles : BrowserCrash(h)

SpecRoute == InitRoute /\ [][NextRoute]_vars

\* ------------------------------------------------------------------ properties
\* C1: at most one live browser handle exists at any time, under every interleaving of
\* renderHTML and closeBrowser calls: of the handles that were launched, at most one
\* has never had close() invoked on it.
C1_AtMostOneLiveHandle == Cardinality(LiveHandles) <= 1

\* C2: when a renderHTML call returns or rejects, close() has been invoked on every
\* context and every page the call created, whatever step failed.
C2_CreatedObjectsClosed ==
  \A r \in Requests :
    pc[r] = "done" =>
      /\ contexts[r].created > 0 => contexts[r].closeCalls > 0
      /\ pages[r].created > 0 => pages[r].closeCalls > 0

\* C3: teardown closes the page first and the context second: a context whose page
\* exists is never closed before that page, and when the call returns or rejects with
\* a page and a context at hand, each of them has been closed exactly once.
C3_PageThenContext ==
  \A r \in Requests :
    /\ (contexts[r].closeCalls > 0 /\ pages[r].created > 0) => pages[r].closeCalls > 0
    /\ (pc[r] = "done" /\ page[r] # NoObject /\ context[r] # NoObject) =>
         (pages[r].closeCalls = 1 /\ contexts[r].closeCalls = 1)

\* C4: a render request never closes or replaces the shared browser handle: a step
\* that replaces a cached handle, or that invokes close() on a handle, is a step of
\* closeBrowser.
C4_RenderKeepsHandle ==
  [][/\ (browserInstance # NoBrowser /\ browserInstance' # browserInstance) =>
          \E c \in Closers : cpc[c] = "closing" /\ cpc'[c] = "idle"
     /\ browserCloseCalls' # browserCloseCalls =>
          \E c \in Closers : cpc[c] = "idle" /\ cpc'[c] = "closing"]_vars

\* C5: when the launch of the browser fails, the request that started the launch
\* rejects with the launch error and the singleton is left absent (so that the next
\* request launches again).
C5_LaunchFailureLeavesAbsent ==
  [][\A r \in Requests :
       (pc[r] = "launch" /\ error'[r] = "LaunchError") =>
          (pc'[r] = "done" /\ browserInstance' = NoBrowser)]_vars

\* C6: once a request has failed because the shared handle crashed, the singleton no
\* longer refers to that broken handle.
C6_BrokenHandleDropped ==
  \A r \in Requests :
    (pc[r] = "done" /\ error[r] = "TargetClosed" /\ browser[r] \in crashed) =>
      browserInstance # browser[r]

\* C7: closeBrowser is idempotent, also for overlapping calls: close() is invoked at
\* most once on any browser handle.
C7_CloseAtMostOnce == \A h \in Handles : browserCloseCalls[h] <= 1

\* C8: the singleton goes absent -> created -> reused -> destroyed -> recreated: no
\* browser is launched before the first request, and a launch only ever fills an absent
\* singleton (between a creation and the next closeBrowser there is no new launch).
C8_LaunchOnlyWhenAbsent ==
  [][launched' # launched =>
       /\ browserInstance = NoBrowser
       /\ \E r \in Requests : pc[r] = "launch"]_vars

\* The positions of renderHTML at which the invocation works on its page.
PageSteps == {"setContent", "addAssets", "waitForSelector", "clipQuery", "clipBox",
              "screenshot", "version", "embedMetadata"}

\* C9: each render request creates one browser context and, within it, one page (never
\* a second one, and exactly one of each once it works on its page), invokes the
\* capture at most once, and no context or page is used by a request other than the
\* one that created it.
C9_OneContextOnePageOneCapture ==
  \A r \in Requests :
    /\ contexts[r].created <= 1
    /\ pages[r].created <= 1
    /\ captures[r] <= 1
    /\ contexts[r].users \subseteq {r}
    /\ pages[r].users \subseteq {r}
    /\ pc[r] \in PageSteps => (contexts[r].created = 1 /\ pages[r].created = 1)
    /\ \A s \in Requests \ {r} :
         /\ context[r] # NoObject => context[s] # context[r]
         /\ page[r] # NoObject => page[s] # page[r]

\* Two requests overlap, each with its own page; one has captured, the other has had
\* its capture fail and is closing its page.
C9_Witness ==
  \E r, s \in Requests :
    /\ r # s
    /\ pc[r] = "version" /\ captures[r] = 1 /\ error[r] = "none"
    /\ pc[s] = "pageClose" /\ captures[s] = 1 /\ error[s] # "none"
    /\ pages[r].users = {r} /\ pages[s].users = {s}

\* C10: a POST /render request (with a valid API key and a payload within the size
\* limit) whose body lacks html, has a viewport outside (0, 5000] x (0, 5000] or a
\* scale factor outside (0, 5], has a format other than png or jpeg, or has, with
\* format jpeg, a quality outside [1, 100], never reaches renderHTML, and the response
\* it gets has status 400.
C10_InvalidRejected ==
  \A r \in Requests :
    LET b == req[r].body
        v == b.viewport
        InBounds(x, max) == x.t = "number" /\ x.v > 0 /\ x.v <= max
    IN  ( /\ route[r] \notin {"none", "finished"}
          /\ AuthenticateStatus(req[r].apiKey, apiKeyEnv) = 0
          /\ b.contentLength = "1KB"
          /\ \/ b.html = Absent
             \/ /\ v.t = "object"
                /\ \/ ~InBounds(v.width, MaxViewportSize)
                   \/ ~InBounds(v.height, MaxViewportSize)
                   \/ /\ v.deviceScaleFactor.t # "undefined"
                      /\ ~InBounds(v.deviceScaleFactor, MaxDeviceScaleFactor)
             \/ b.format \notin {Absent, "png", "jpeg"}
             \/ /\ b.format = "jpeg"
                /\ b.quality.t = "number"
                /\ (b.quality.v < MinQuality \/ b.quality.v > MaxQuality) )
        => (pc[r] = "idle" /\ (res[r].sent => res[r].status = 400))

C18_ClipFallbackIsFullPage ==
  \A r \in Requests :
    (capture[r].buffer # NoImage /\ params[r].clipSelector /\ ~clip[r])
      => capture[r].options = ScreenshotOptions([params[r] EXCEPT !.clipSelector = FALSE], FALSE)

\* C19: for a request with assets, every resource request the page issues for an asset
\* file name, those issued while the document content is loaded included, is fulfilled
\* from the supplied assets: none of them goes to normal resolution.
C19_AssetRequestsIntercepted ==
  \A r \in Requests : params[r].assets => "network" \notin loads[r]

\* C20: addAssetsToPage never rejects: whatever goes wrong while the interception is
\* installed, the asset step raises no error and renderHTML goes on with the step that
\* follows it, exactly as after an asset step without a problem.
C20_AssetErrorsSwallowed ==
  [][\A r \in Requests :
       (pc[r] = "addAssets" /\ pc'[r] # "addAssets")
         => /\ error'[r] = "none"
            /\ failedAt'[r] = "none"
            /\ pc'[r] = AfterAssets(params[r])]_vars

\* A request with assets whose asset step failed (no interception in place) has been
\* rendered to the end without an error.
C20_Witness ==
  \E r \in Requests :
    /\ params[r].assets /\ ~intercepting[r]
    /\ pc[r] = "done" /\ error[r] = "none"
    /\ result[r].imageBuffer # NoImage

\* C16: metadata embedding never fails a render.  The embedding step raises no error,
\* and the bytes renderHTML returns are those of the capture: without a text chunk when
\* the PNG could not be decoded or re-encoded, and when the format is jpeg, for which
\* the step is not performed at all.
C16_EmbeddingNeverFails ==
  /\ \A r \in Requests :
       (pc[r] = "done" /\ error[r] = "none")
         => /\ result[r].imageBuffer.shot = capture[r].buffer.shot
            /\ result[r].imageBuffer # capture[r].buffer
                 => /\ params[r].format = "png"
                    /\ result[r].imageBuffer = Image(capture[r].buffer.shot, Stringify(result[r].metadata))
            /\ params[r].format = "jpeg" => result[r].imageBuffer = capture[r].buffer
  /\ \A r \in Requests : failedAt[r] # "embedMetadata"

\* A PNG render with embedding whose image could not be decoded has returned without an
\* error, and what it returned is the captured buffer.
C16_Witness ==
  \E r \in Requests :
    /\ pc[r] = "done" /\ error[r] = "none" /\ params[r].format = "png"
    /\ params[r].embedMetadata
    /\ result[r].imageBuffer = capture[r].buffer
    /\ capture[r].buffer # NoImage

\* C13: a render that returned a result (before the request's deadline) is answered
\* with HTTP 200 in a shape chosen by responseFormat alone: for json a JSON body with
\* the image as base64 text, the contentType and the metadata of the result; for every
\* other value (absent, image, unrecognised) the raw image bytes with Content-Type equal
\* to the result's contentType.
C13_ShapeByResponseFormat ==
  [][\A r \in Requests :
       ( /\ route[r] = "renderHTML" /\ route'[r] = "responded" /\ error[r] = "none"
         /\ ~res[r].sent )
         => /\ res'[r].sent /\ res'[r].status = 200
            /\ res'[r].body.error = NoError
            /\ res'[r].body.image = result[r].imageBuffer
            /\ IF req[r].body.responseFormat = "json"
                 THEN /\ res'[r].body.kind = "json"
                      /\ res'[r].body.encoding = "base64"
                      /\ res'[r].body.contentType = result[r].contentType
                      /\ Parse([present |-> TRUE, json |-> res'[r].body.metadata])
                           = result[r].metadata
                 ELSE /\ res'[r].body.kind = "bytes"
                      /\ res'[r].body.encoding = "raw"
                      /\ res'[r].headers.contentType = result[r].contentType]_vars

\* A render with an unrecognised responseFormat has been answered with the raw image.
C13_Witness ==
  \E r \in Requests :
    /\ route[r] = "responded" /\ req[r].path = "/render"
    /\ req[r].body.responseFormat = "xml"
    /\ res[r].sent /\ res[r].status = 200
    /\ res[r].body.kind = "bytes" /\ res[r].body.image # NoImage

\* C14: every successful image-format response carries the headers X-Screenshot-Id,
\* X-Rendering-Time, X-Browser-Version, X-Rendered-At, X-Viewport-Width,
\* X-Viewport-Height and X-Viewport-DeviceScaleFactor, each holding the corresponding
\* field of the metadata, whether the request gave a viewport with or without
\* deviceScaleFactor or none at all.
C14_AllMetadataHeaders ==
  [][\A r \in Requests :
       (route[r] = "renderHTML" /\ route'[r] = "responded" /\ error[r] = "none"
          /\ res'[r].body.kind = "bytes")
         => /\ res'[r].headers.screenshotId = HeaderOf(result[r].metadata.screenshotId)
            /\ res'[r].headers.renderingTime = HeaderOf(result[r].metadata.renderingTime)
            /\ res'[r].headers.browserVersion = HeaderOf(result[r].metadata.browserVersion)
            /\ res'[r].headers.renderedAt = HeaderOf(result[r].metadata.renderedAt)
            /\ DOMAIN res'[r].headers.viewport = ViewportKeys
            /\ \A k \in DOMAIN res'[r].headers.viewport :
                 res'[r].headers.viewport[k] = HeaderOf(result[r].metadata.viewport[k].v)]_vars

\* C15: for a successful PNG render with metadata embedding, the JSON of the image's
\* metadata text chunk reads back as the metadata record renderHTML returns for the
\* same request, and in the image response of that request its screenshotId,
\* renderedAt and browserVersion are the values of the X-Screenshot-Id, X-Rendered-At
\* and X-Browser-Version headers, its viewport entries those of the X-Viewport-* headers.
C15_ChunkMatchesMetadata ==
  /\ \A r \in Requests :
       (pc[r] = "done" /\ error[r] = "none" /\ result[r].imageBuffer.text.present)
         => Parse(result[r].imageBuffer.text) = result[r].metadata
  /\ \A r \in Requests :
       (res[r].sent /\ res[r].body.kind = "bytes" /\ res[r].body.image.text.present)
         => /\ HeaderOf(Parse(res[r].body.image.text).screenshotId) = res[r].headers.screenshotId
            /\ HeaderOf(Parse(res[r].body.image.text).renderedAt) = res[r].headers.renderedAt
            /\ HeaderOf(Parse(res[r].body.image.text).browserVersion) = res[r].headers.browserVersion
            /\ ViewportHeaders(Parse(res[r].body.image.text).viewport) = res[r].headers.viewport

\* An image response whose PNG carries the metadata text chunk has been sent.
C15_Witness ==
  \E r \in Requests :
    /\ res[r].sent /\ res[r].status = 200 /\ res[r].body.kind = "bytes"
    /\ res[r].body.image.text.present
    /\ res[r].headers.contentType = "image/png"

\* C17: a POST /render request that sets embedMetadata to false is rendered without
\* the embedding step, so that the image of its response is the captured buffer; the
\* step is taken only if embedMetadata is true or absent and the format is png.
C17_EmbedOnlyWhenAsked ==
  \A r \in Requests :
    (route[r] = "renderHTML" /\ (pc[r] = "embedMetadata" \/ result[r].imageBuffer.text.present))
      => /\ req[r].body.embedMetadata # "false"
         /\ FormatOf(req[r].body) = "png"

\* C12: every response with an error status has a JSON body {error: {message, status}}
\* with a string message and a status equal to the HTTP status, carries a stack only
\* when NODE_ENV is not production, and has no image in its body.
C12_ErrorEnvelope ==
  \A r \in Requests :
    (res[r].sent /\ res[r].status >= 400)
      => /\ res[r].body.kind = "json"
         /\ res[r].body.error.shape = "object"
         /\ res[r].body.error.message # Absent
         /\ res[r].body.error.status = res[r].status
         /\ res[r].body.error.stack => nodeEnv # "production"
         /\ res[r].body.image = NoImage

\* C23: validatePayload lets a request (with harmless html within the size limit) that
\* supplies a viewport pass if and only if
\* width and height are numbers in (0, 5000] and deviceScaleFactor, when supplied, is a
\* number in (0, 5]; every other supplied viewport is answered with status 400.
C23_ViewportAcceptedIffInBounds ==
  [][\A r \in Requests :
       LET v == req[r].body.viewport
           InBounds(x, max) == x.t = "number" /\ x.v > 0 /\ x.v <= max
           Valid == /\ InBounds(v.width, MaxViewportSize)
                    /\ InBounds(v.height, MaxViewportSize)
                    /\ v.deviceScaleFactor.t # "undefined"
                         => InBounds(v.deviceScaleFactor, MaxDeviceScaleFactor)
       IN  ( /\ route[r] = "validatePayload" /\ route'[r] # "validatePayload"
             /\ v.t = "object"
             /\ req[r].body.html = "<p>ok</p>" /\ req[r].body.contentLength = "1KB" )
             => /\ route'[r] = "handler" <=> Valid
                /\ ~Valid => (res'[r].sent /\ res'[r].status = 400)]_vars

\* C29: the options a capture is taken with have type jpeg for format jpeg and png
\* otherwise, carry a quality exactly when the format is jpeg, have clip set and no
\* fullPage when the clipSelector lookup gave a bounding box, and never have both clip
\* and fullPage.
C29_CaptureOptions ==
  \A r \in Requests :
    capture[r].buffer # NoImage
      => /\ capture[r].options.type = (IF params[r].format = "jpeg" THEN "jpeg" ELSE "png")
         /\ capture[r].options.quality.t # "undefined" <=> params[r].format = "jpeg"
         /\ params[r].format = "jpeg" => capture[r].options.quality = Num(params[r].quality)
         /\ clip[r] => (capture[r].options.clip /\ capture[r].options.fullPage = "absent")
         /\ ~(capture[r].options.clip /\ capture[r].options.fullPage # "absent")

\* A JPEG capture clipped to the bounding box of its clipSelector has been taken.
C29_Witness ==
  \E r \in Requests :
    /\ capture[r].buffer # NoImage
    /\ params[r].format = "jpeg" /\ params[r].clipSelector /\ clip[r]
    /\ capture[r].options.clip /\ capture[r].options.quality = Num(DefaultQuality)

\* C28: within one render request the operations run in the order acquire browser,
\* newContext, newPage, setContent, asset injection (only with assets), waitForSelector
\* (only with a selector), capture (with its clip lookup), browser.version with the
\* screenshotId and metadata, metadata embedding; each begins when the one before it has
\* completed, and once a step has failed only the teardown runs: no capture is taken
\* after a failed wait.
C28_StepsInOrder ==
  [][\A r \in Requests :
       LET p == params[r]
           Teardown == {"pageClose", "contextClose", "done", "settled"}
           Capture == IF p.clipSelector THEN "clipQuery" ELSE "screenshot"
           Wait == IF p.waitForSelector THEN "waitForSelector" ELSE Capture
           Following ==
             CASE pc[r] = "launch" -> {"newContext"}
               [] pc[r] = "newContext" -> {"newPage"}
               [] pc[r] = "newPage" -> {"setContent"}
               [] pc[r] = "setContent" -> {IF p.assets THEN "addAssets" ELSE Wait}
               [] pc[r] = "addAssets" -> {Wait}
               [] pc[r] = "waitForSelector" -> {Capture}
               [] pc[r] = "clipQuery" -> {"clipBox", "screenshot"}
               [] pc[r] = "clipBox" -> {"screenshot"}
               [] pc[r] = "screenshot" -> {"version"}
               [] pc[r] = "version" -> IF p.embedMetadata /\ p.format = "png"
                                         THEN {"embedMetadata"} ELSE Teardown
               [] OTHER -> Teardown
       IN  /\ (pc[r] \notin {"idle", "settled"} /\ pc'[r] # pc[r])
             => IF error[r] = "none" /\ error'[r] = "none"
                  THEN pc'[r] \in Following
                  ELSE pc'[r] \in Teardown
           /\ captures'[r] > captures[r] => (error[r] = "none" /\ pc[r] = "screenshot")]_vars

\* A request whose selector wait failed has been torn down without a capture.
C28_Witness ==
  \E r \in Requests :
    /\ pc[r] = "done" /\ failedAt[r] = "waitForSelector"
    /\ captures[r] = 0 /\ capture[r] = NoCapture

C27_TimeoutCallsNext ==
  /\ [](\A r \in Requests :
         nextCalls[r] = CASE timer[r] = "none" -> << >>
                          [] timer[r] \in {"armed", "cleared"} -> <<NoApiError>>
                          [] timer[r] = "fired" ->
                               <<NoApiError, ApiError("Request timeout", 408)>>)
  /\ [][\A r \in Requests :
          /\ (route[r] = "none" /\ route'[r] # "none") => timer'[r] = "armed"
          /\ timer[r] = "armed" /\ timer'[r] = "fired" => route[r] # "finished"
          /\ (route[r] # "finished" /\ route'[r] = "finished")
               => timer'[r] = (IF timer[r] = "armed" THEN "cleared" ELSE timer[r])
          /\ timer'[r] = "cleared" /\ timer[r] # "cleared" => route'[r] = "finished"
          /\ timer[r] \in {"cleared", "fired"}
               => (timer'[r] = timer[r] /\ nextCalls'[r] = nextCalls[r])]_vars

\* One request has finished before its deadline, with its timer cancelled, and the
\* timer of the next one has fired while its render was in flight.
C27_Witness ==
  \E r, s \in Requests :
    /\ route[r] = "finished" /\ timer[r] = "cleared"
    /\ route[s] = "renderHTML" /\ timer[s] = "fired"
    /\ res[s].sent /\ res[s].status = 408


\* C30: when the request's deadline has fired while its render was in flight, the 408
\* envelope stays the only response: the step of the handler that follows the end of
\* the render writes nothing more, passes no further error to the error handler, and
\* finds the request's page and context closed.
C30_OneResponseAfterTimeout ==
  [][\A r \in Requests :
       (timer[r] = "fired" /\ route[r] = "renderHTML" /\ route'[r] # "renderHTML")
         => /\ res'[r] = res[r]
            /\ res[r].status = 408
            /\ handled'[r] = handled[r]
            /\ (pages[r].created > 0 => pages[r].closeCalls > 0)
            /\ (contexts[r].created > 0 => contexts[r].closeCalls > 0)]_vars

\* C25: for every address, the answers of rateLimit follow from the instants of that
\* address's requests: a window starts with the first request and with every request
\* that arrives more than windowMs after the start of the window before it; within a
\* window the first maxRequests requests are passed on without an error and every
\* further one is passed on with an ApiError of status 429; the entry of the Map counts
\* the requests of the current window, from 1.
C25_FixedWindowPerIp ==
  \A ip \in IPs :
    LET calls == rateCalls[ip]
        n == Len(calls)
        start[i \in 1..n] ==
          IF i = 1 THEN calls[1].at
          ELSE IF calls[i].at - start[i - 1] > windowMs THEN calls[i].at
          ELSE start[i - 1]
        position(i) == Cardinality({j \in 1..i : start[j] = start[i]})
    IN /\ \A i \in 1..n :
            /\ position(i) <= maxRequests => calls[i].err = NoApiError
            /\ position(i) > maxRequests
                 => (calls[i].err.status = 429 /\ calls[i].err.message = "Too many requests")
       /\ (n > 0 /\ requests[ip].has)
            => (requests[ip].count = position(n) /\ requests[ip].timestamp = start[n])

\* An address has used its limit of two requests, has been rejected within the window
\* and has been admitted again after it, with a count of 1.
C25_Witness ==
  \E ip \in IPs :
    /\ maxRequests = 2
    /\ Len(rateCalls[ip]) = 4
    /\ rateCalls[ip][1].err = NoApiError /\ rateCalls[ip][2].err = NoApiError
    /\ rateCalls[ip][3].err = TooManyRequests
    /\ rateCalls[ip][3].at <= rateCalls[ip][1].at + windowMs
    /\ rateCalls[ip][4].err = NoApiError
    /\ rateCalls[ip][4].at > rateCalls[ip][1].at + windowMs
    /\ requests[ip].has /\ requests[ip].count = 1

\* C26: the rate limiter treats each address on its own.  A request of an address is
\* answered from that address's entry and the clock alone; and a step that is not a
\* request of the address (a request of another address, the cleanup, the passing of
\* time) leaves the address an entry from which every later request of it gets the same
\* answer and leaves the same entry behind.
C26_IndependentPerIp ==
  [][\A a \in IPs :
       /\ rateCalls'[a] # rateCalls[a]
            => /\ requests'[a] = Limit(requests[a], now).entry
               /\ rateCalls'[a] =
                    Append(rateCalls[a], [at |-> now, err |-> Limit(requests[a], now).err])
       /\ rateCalls'[a] = rateCalls[a]
            => \A t \in now'..MaxNow : Limit(requests'[a], t) = Limit(requests[a], t)]_vars

\* Address A has been rejected while a request of address B, made during A's window,
\* was admitted, and the cleanup has since deleted A's entry.
C26_Witness ==
  /\ Len(rateCalls["A"]) >= 2 /\ rateCalls["A"][Len(rateCalls["A"])].err = TooManyRequests
  /\ Len(rateCalls["B"]) >= 1 /\ rateCalls["B"][1].err = NoApiError
  /\ rateCalls["B"][1].at >= rateCalls["A"][1].at
  /\ rateCalls["B"][1].at <= rateCalls["A"][1].at + windowMs
  /\ ~requests["A"].has
  /\ requests["B"].has

\* C21: a request the route handler intercepts is fulfilled, with status 200, the
\* decoded bytes of the asset and the MIME type of its extension, if and only if the
\* trailing segment of the path of its URL (the URL without query string and fragment)
\* is a key of the assets the caller supplied; every other intercepted request is
\* continued unmodified.  (A request whose route.fulfill() rejects is continued.)
C21_FulfilledIffKeyOfAssets ==
  \A s \in served :
    LET marks == {i \in 1..Len(s.url) : s.url[i] \in {"?", "#"}}
        path == IF marks = {} THEN s.url
                ELSE SubSeq(s.url, 1, (CHOOSE i \in marks : \A j \in marks : i <= j) - 1)
        segment == Pop(path, "/")
        supplied == \E a \in assetOptions.assets : a.key = segment
    IN /\ supplied => s.did.outcome \in {"fulfilled", "continuedAfterError"}
       /\ s.did.outcome = "fulfilled"
            => /\ supplied
               /\ s.did.status = 200
               /\ s.did.body = Base64Decode(Lookup(assetOptions.assets, segment))
               /\ s.did.contentType = GetMimeType(segment)
       /\ ~supplied => s.did = Continued

\* C22: once addAssetsToPage has finished without a rejected call of the page, a
\* non-empty fonts list has been injected as exactly one style tag with exactly one
\* @font-face rule per entry, in the order of the entries (the family, data, weight
\* and style of the entry, `normal` where the entry has no weight or no style, entries
\* of one name kept apart), followed by exactly one pause; there is never more than one
\* style tag or pause, and never a pause without a style tag.  With null options, or
\* with empty assets and an empty fonts list, no route is installed and no style tag
\* injected.
C22_OneRulePerFont ==
  LET fonts == assetOptions.fonts
      default(v) == IF v = Absent THEN "normal" ELSE v
  IN /\ Len(styleTags) <= 1 /\ pauses <= Len(styleTags)
     /\ (apc = "done" /\ ~caught /\ Len(fonts) > 0)
          => /\ Len(styleTags) = 1 /\ pauses = 1
             /\ Len(styleTags[1]) = Len(fonts)
             /\ \A i \in 1..Len(fonts) :
                  /\ styleTags[1][i].family = fonts[i].name
                  /\ styleTags[1][i].src = fonts[i].data
                  /\ styleTags[1][i].weight = default(fonts[i].weight)
                  /\ styleTags[1][i].style = default(fonts[i].style)
     /\ Len(fonts) = 0 => (styleTags = << >> /\ pauses = 0)
     /\ (~assetOptions.given \/ (assetOptions.assets = {} /\ Len(fonts) = 0))
          => (routeCalls = 0 /\ styleTags = << >> /\ apc \in {"idle", "done"})

\* Three entries of one family (weights 400 and 700, and one without weight and style)
\* have been injected as three distinct rules of one style tag, the last with `normal`
\* for both, next to an installed route, and the pause has been made.
C22_Witness ==
  /\ apc = "done" /\ ~caught /\ pauses = 1 /\ routeCalls = 1
  /\ Len(assetOptions.fonts) = 3 /\ Len(styleTags[1]) = 3
  /\ \A i, j \in 1..3 :
       /\ styleTags[1][i].family = styleTags[1][j].family
       /\ i # j => styleTags[1][i] # styleTags[1][j]
  /\ assetOptions.fonts[3].weight = Absent /\ assetOptions.fonts[3].style = Absent
  /\ styleTags[1][3].weight = "normal" /\ styleTags[1][3].style = "normal"

\* C31: getBrowser never hands a request a handle on which close() has been invoked:
\* whenever a request receives its browser handle, from the cache or from a launch,
\* no closeBrowser call has invoked close() on that handle.
C31_NeverHandsClosingHandle ==
  [][\A r \in Requests :
       (browser'[r] # browser[r] /\ browser'[r] # NoBrowser)
         => browserCloseCalls'[browser'[r]] = 0]_vars

\* C32: when the process exits on SIGTERM or SIGINT, closeBrowser has been invoked and
\* the close of the browser handle has completed: no closeBrowser call is still
\* awaiting close() and no handle is left in the singleton, whichever of the renderer's
\* and the server's handler ran first.
C32_CloseCompletesBeforeExit ==
  [][(~exited /\ exited')
       => /\ \A c \in Closers : cpc'[c] # "closing"
          /\ browserInstance' = NoBrowser]_vars

\* C33: the renderingTime of a capture is the duration of the page.screenshot() call
\* alone: the timed interval holds no other operation of the browser, in particular
\* not the lookup of the clip selector and not the query of its bounding box.
C33_RenderingTimeIsCaptureOnly ==
  \A r \in Requests :
    capture[r].buffer # NoImage => capture[r].renderingTime \in Durations

\* C34: in every time interval of length windowMs, wherever it starts, the rate limiter
\* has admitted at most maxRequests requests of one address.
C34_AtMostMaxInAnyInterval ==
  \A ip \in IPs : \A t \in 0..MaxNow :
    Cardinality({i \in 1..Len(rateCalls[ip]) :
                   /\ rateCalls[ip][i].err = NoApiError
                   /\ t <= rateCalls[ip][i].at
                   /\ rateCalls[ip][i].at < t + windowMs}) <= maxRequests


\* C34 (amended): the limit holds per window of the limiter, not per interval.  Of the
\* requests of one address that fall into one window (from the window's first request
\* to windowMs after it) at most maxRequests are admitted; an interval of length
\* windowMs that lies across the boundary of two windows holds at most
\* 2 * maxRequests - 1 admitted requests.
C34_AtMostMaxPerWindow ==
  \A ip \in IPs :
    LET calls == rateCalls[ip]
        n == Len(calls)
        start[i \in 1..n] ==
          IF i = 1 THEN calls[1].at
          ELSE IF calls[i].at - start[i - 1] > windowMs THEN calls[i].at
          ELSE start[i - 1]
        admitted == {i \in 1..n : calls[i].err = NoApiError}
    IN /\ \A i \in 1..n :
            Cardinality({j \in admitted : start[j] = start[i]}) <= maxRequests
       /\ \A t \in 0..MaxNow :
            Cardinality({i \in admitted : t <= calls[i].at /\ calls[i].at < t + windowMs})
              <= 2 * maxRequests - 1

\* With a limit of two, three requests of one address have been admitted within one
\* interval of length windowMs: the last of one window and the two of the next.
C34_Witness ==
  \E ip \in IPs : \E t \in 0..MaxNow :
    /\ maxRequests = 2
    /\ Cardinality({i \in 1..Len(rateCalls[ip]) :
                      /\ rateCalls[ip][i].err = NoApiError
                      /\ t <= rateCalls[ip][i].at
                      /\ rateCalls[ip][i].at < t + windowMs}) = 3

\* C35: for every request the route handler intercepts, exactly one of route.fulfill()
\* and route.continue() is invoked, and exactly once: never both and never neither,
\* also when the fulfilling of the asset throws.
C35_ExactlyOneDisposition ==
  \A s \in served :
    /\ s.did.fulfillCalls + s.did.continueCalls = 1
    /\ s.did.fulfillCalls = 1 <=> s.did.outcome = "fulfilled"

\* C36: getMimeType returns, for every file name, the MIME type registered for the
\* lower-cased text after the last dot of the name when that text is one of the eleven
\* registered extensions, and application/octet-stream for every other name, a name
\* without a dot included.
C36_MimeTypeOfExtension ==
  \A s \in served :
    s.did.outcome = "fulfilled" =>
      LET name == FileNameOf(s.url)
          dots == {i \in 1..Len(name) : name[i] = "."}
          ext == Pop(name, ".")
          registered == dots # {} /\ Len(ext) = 1 /\ ToLowerCase(ext[1]) \in DOMAIN MimeTypes
      IN s.did.contentType =
           IF registered THEN MimeTypes[ToLowerCase(ext[1])] ELSE "application/octet-stream"


\* ------------------------------------------------------------------ render metrics
\* C37: each renderHTML invocation records exactly one render-count increment: with
\* status success if and only if the invocation returns a result to its caller, with
\* status error if and only if it rejects; the duration and size histograms are
\* recorded only together with the success status.
C37_OneIncrementMatchingOutcome ==
  \A r \in Requests :
    pc[r] = "done" =>
      /\ metrics[r].success + metrics[r].error = 1
      /\ (metrics[r].success = 1) <=> (error[r] = "none")
      /\ (metrics[r].error = 1) <=> (error[r] # "none")
      /\ metrics[r].durations = metrics[r].success
      /\ metrics[r].sizes = metrics[r].success

\* ------------------------------------------------------------------ tracing wrappers
\* The wrappers that start a span: withTracing (createTracedFunction) and
\* createSpanManager.withSpan around a function, createTracedMiddleware and
\* withTracedMiddleware around an Express middleware, and the api.render span of the
\* POST /render handler.
FunctionWrappers == {"withTracing", "withSpan"}
MiddlewareWrappers == {"createTracedMiddleware", "withTracedMiddleware"}
RouteSpan == "api.render"
Wrappers == FunctionWrappers \cup MiddlewareWrappers \cup {RouteSpan}

\* The values a wrapped function returns, the errors it throws or passes to next
\* ("none": next() without an argument), and the status codes a response ends with.
ReturnValues == {"undefined", "value"}
ThrownErrors == {"Error", "TimeoutError"}
NextArguments == {"none"} \cup ThrownErrors
EndStatusCodes == {200, 400}

\* The number of res.end() calls on one response.
MaxEnds == 2

\* Every variable but those of the wrappers.
unwrappedVars == <<browserVars, pc, params, browser, context, page, error, failedAt, clip,
                   captures, contexts, pages, cpc, route, req, res, envVars, timeoutVars,
                   handled, dataVars, signalVars, limitVars, assetVars>>

\* span.end()
SpanEnd(s) == [s EXCEPT !.endCalls = @ + 1]
\* span.setStatus({code})
SetStatus(s, code) == [s EXCEPT !.status = code]
\* span.recordException(err) followed by span.setStatus({code: ERROR})
RecordException(s, err) == SetStatus([s EXCEPT !.exceptions = Append(@, err)], "ERROR")

\* tracer.startActiveSpan(name, async (span) => ...): the callback runs with a new span.
StartActiveSpan(w) ==
  /\ traced.tpc = "idle"
  /\ wrapped.wpc = "idle"
  /\ span' = [NoSpan EXCEPT !.started = TRUE]
  /\ traced' = [NoTraced EXCEPT !.wrapper = w,
                                !.tpc = IF w = RouteSpan THEN "validate" ELSE "body"]
  /\ UNCHANGED <<unwrappedVars, wrapped>>

\* part_020 84-129 (withTracing), telemetry.js 112-148 (createTracedFunction) and
\* part_020 261-287 (withSpan): `const result = await fn(..)` resolved; setStatus(OK),
\* return result, and the finally ends the span.
TracedFnReturns(v) ==
  /\ traced.wrapper \in FunctionWrappers
  /\ traced.tpc = "body"
  /\ span' = SpanEnd(SetStatus(span, "OK"))
  /\ traced' = [traced EXCEPT !.tpc = "settled", !.fn = Returned(v), !.outcome = Returned(v)]
  /\ UNCHANGED <<unwrappedVars, wrapped>>

\* part_020 116-127 and 275-284: fn threw or rejected; the catch records the error and
\* rethrows it, and the finally ends the span.
TracedFnThrows(err) ==
  /\ traced.wrapper \in FunctionWrappers
  /\ traced.tpc = "body"
  /\ span' = SpanEnd(RecordException(span, err))
  /\ traced' = [traced EXCEPT !.tpc = "settled", !.fn = Threw(err), !.outcome = Threw(err)]
  /\ UNCHANGED <<unwrappedVars, wrapped>>

\* telemetry.js 188-198, part_020 173-183: the patched res.end, called by the middleware,
\* by a later handler or by the error handler.  The first call sets the status from
\* res.statusCode and ends the span, guarded by the wrapper's responseEnded.
PatchedEnd(code) ==
  /\ traced.wrapper \in MiddlewareWrappers
  /\ traced.tpc \in {"body", "settled"}
  /\ traced.resEndCalls < MaxEnds
  /\ span' = IF traced.responseEnded
               THEN span
               ELSE SpanEnd(SetStatus(span, IF code >= 400 THEN "ERROR" ELSE "OK"))
  /\ traced' = [traced EXCEPT !.responseEnded = TRUE, !.resEndCalls = @ + 1]
  /\ UNCHANGED <<unwrappedVars, wrapped>>

\* telemetry.js 201-216, part_020 186-201: nextWithTracing(err).  With an error the
\* span is marked and ended, responseEnded is left as it is; next(err) is called.
NextWithTracing(err) ==
  /\ traced.wrapper \in MiddlewareWrappers
  /\ traced.tpc = "body"
  /\ traced.nextArgs = << >>
  /\ span' = IF err # "none" THEN SpanEnd(RecordException(span, err)) ELSE span
  /\ traced' = [traced EXCEPT !.nextArgs = Append(@, err)]
  /\ UNCHANGED <<unwrappedVars, wrapped>>

\* telemetry.js 218-238, part_020 203-223: the middleware returned (a returned promise
\* resolved); the wrapper returns its result.
TracedMiddlewareReturns(v) ==
  /\ traced.wrapper \in MiddlewareWrappers
  /\ traced.tpc = "body"
  /\ traced' = [traced EXCEPT !.tpc = "settled", !.fn = Returned(v), !.outcome = Returned(v)]
  /\ UNCHANGED <<unwrappedVars, wrapped, span>>

\* telemetry.js 223-252, part_020 208-237: the middleware threw, or the promise it
\* returned rejected; unless responseEnded, the span is marked and ended and
\* responseEnded is set; the error is rethrown.
TracedMiddlewareThrows(err) ==
  /\ traced.wrapper \in MiddlewareWrappers
  /\ traced.tpc = "body"
  /\ span' = IF traced.responseEnded THEN span ELSE SpanEnd(RecordException(span, err))
  /\ traced' = [traced EXCEPT !.tpc = "settled", !.responseEnded = TRUE,
                              !.fn = Threw(err), !.outcome = Threw(err)]
  /\ UNCHANGED <<unwrappedVars, wrapped>>

\* routes/render.js 130-170: the format or the quality is invalid; the handler sets the
\* ERROR status, calls span.end() (141, 161) and returns res.status(400).json(..) from
\* inside the try, so that the finally (263-265) calls span.end() as well.
RouteSpanInvalid ==
  /\ traced.wrapper = RouteSpan
  /\ traced.tpc = "validate"
  /\ span' = SpanEnd(SpanEnd(SetStatus(span, "ERROR")))
  /\ traced' = [traced EXCEPT !.tpc = "settled", !.resEndCalls = @ + 1,
                              !.fn = Returned("undefined"), !.outcome = Returned("undefined")]
  /\ UNCHANGED <<unwrappedVars, wrapped>>

\* routes/render.js 172-197: the validation passed; renderHTML is awaited.
RouteSpanValid ==
  /\ traced.wrapper = RouteSpan
  /\ traced.tpc = "validate"
  /\ traced' = [traced EXCEPT !.tpc = "render"]
  /\ UNCHANGED <<unwrappedVars, wrapped, span>>

\* routes/render.js 199-237 and 263-265: the response is sent, the status is OK and
\* the finally ends the span.
RouteSpanRendered ==
  /\ traced.wrapper = RouteSpan
  /\ traced.tpc = "render"
  /\ span' = SpanEnd(SetStatus(span, "OK"))
  /\ traced' = [traced EXCEPT !.tpc = "settled", !.resEndCalls = @ + 1,
                              !.fn = Returned("undefined"), !.outcome = Returned("undefined")]
  /\ UNCHANGED <<unwrappedVars, wrapped>>

\* routes/render.js 238-265: renderHTML rejected; the catch records the error and
\* calls next with it (an ApiError 408 for a TimeoutError), the finally ends the span.
RouteSpanCaught(err) ==
  /\ traced.wrapper = RouteSpan
  /\ traced.tpc = "render"
  /\ span' = SpanEnd(RecordException(span, err))
  /\ traced' = [traced EXCEPT !.tpc = "settled", !.nextArgs = Append(@, err),
                              !.fn = Returned("undefined"), !.outcome = Returned("undefined")]
  /\ UNCHANGED <<unwrappedVars, wrapped>>

\* ------------------------------------------------------------------ error format wrapper
\* The arguments a middleware calls next with: nothing, an ApiError with a status, an
\* Error without one (status 0: `err.status` is undefined).
NextErrors == {NoApiError, ApiError("Unauthorized", 401), ApiError("boom", 0)}

\* error.js 90, instrumentation/router.js 83: `err.status || 500`
StatusCodeOf(err) == IF err.status # 0 THEN err.status ELSE 500

\* error.js 93-100: the body {error: {message, status, stack?}}; the stack is included
\* outside production if the error has one.
FormattedError(err, hasStack) ==
  ErrorResponse(StatusCodeOf(err),
                Envelope(ApiError(err.message, StatusCodeOf(err)),
                         nodeEnv # "production" /\ hasStack))

\* A wrapper that passes every call of next on.
ForwardsAlways(err, headersSent) == TRUE

\* error.js 87-106: whether wrappedNext(err) calls originalNext: not when it has sent
\* the formatted error (`return` at 101).
Forwards(err, headersSent) == ~(err # NoApiError /\ ~headersSent)

\* error.js 81-84 and 109: the wrapper is called and calls the middleware with
\* wrappedNext.
WrappedMiddlewareCall ==
  /\ wrapped.wpc = "idle"
  /\ traced.tpc = "idle"
  /\ wrapped' = [NoWrapped EXCEPT !.wpc = "middleware"]
  /\ UNCHANGED <<unwrappedVars, span, traced>>

\* The middleware sends a response of its own before it calls next.
WrappedMiddlewareSends ==
  /\ wrapped.wpc = "middleware"
  /\ ~wrapped.res.sent
  /\ wrapped' = [wrapped EXCEPT !.res.sent = TRUE]
  /\ UNCHANGED <<unwrappedVars, span, traced>>

\* error.js 87-106, instrumentation/router.js 80-99: wrappedNext(err).
WrappedNext(err) ==
  /\ wrapped.wpc = "middleware"
  /\ \E hasStack \in BOOLEAN :
       wrapped' = [wrapped EXCEPT
                     !.wpc = "returned",
                     !.arg = err,
                     !.headersSent = wrapped.res.sent,
                     !.res = IF err # NoApiError /\ ~wrapped.res.sent
                               THEN FormattedError(err, hasStack)
                               ELSE @,
                     !.nextArgs = IF Forwards(err, wrapped.res.sent)
                                    THEN Append(@, err)
                                    ELSE @]
  /\ UNCHANGED <<unwrappedVars, span, traced>>

\* The wrappers of the instrumentation, each called once, in each environment.
InitWrappers ==
  InitServer(NodeEnvs, {API_KEY}, {MaxLimit}, {MaxWindow}, {NullOptions}, {FALSE})

NextWrappers ==
  \/ \E w \in Wrappers : StartActiveSpan(w)
  \/ \E v \in ReturnValues : TracedFnReturns(v)
  \/ \E err \in ThrownErrors : TracedFnThrows(err)
  \/ \E code \in EndStatusCodes : PatchedEnd(code)
  \/ \E err \in NextArguments : NextWithTracing(err)
  \/ \E v \in ReturnValues : TracedMiddlewareReturns(v)
  \/ \E err \in ThrownErrors : TracedMiddlewareThrows(err)
  \/ RouteSpanInvalid
  \/ RouteSpanValid
  \/ RouteSpanRendered
  \/ \E err \in ThrownErrors : RouteSpanCaught(err)
  \/ WrappedMiddlewareCall
  \/ WrappedMiddlewareSends
  \/ \E err \in NextErrors : WrappedNext(err)

SpecWrappers == InitWrappers /\ [][NextWrappers]_vars

\* The handling of the traced call is over: the wrapper has settled and, for a
\* middleware, the response has been ended or the middleware has thrown.
TracedHandled ==
  /\ traced.tpc = "settled"
  /\ traced.wrapper \in MiddlewareWrappers =>
       (traced.resEndCalls >= 1 \/ traced.outcome.t = "threw")

\* C38: every span started while handling a request is ended exactly once, whether
\* the wrapped code returns, throws, calls next with an error and the response is
\* ended afterwards, or returns an early validation response; and the wrappers return
\* the wrapped function's result and rethrow its error unchanged.
C38_SpanEndedExactlyOnce ==
  TracedHandled =>
    /\ span.endCalls = 1
    /\ traced.outcome = traced.fn

\* C39: under wrapMiddlewareWithErrorFormat, next(err) with the headers not sent yet
\* sends the {error: {message, status}} envelope with status err.status or 500 and
\* does not call the downstream next; with the headers sent already the response is
\* left untouched and the error goes to the downstream next; next() without an error
\* calls the downstream next.
C39_ErrorFormatOrForward ==
  wrapped.wpc = "returned" =>
    /\ (wrapped.arg # NoApiError /\ ~wrapped.headersSent) =>
         /\ wrapped.res.sent
         /\ wrapped.res.status = (IF wrapped.arg.status # 0 THEN wrapped.arg.status ELSE 500)
         /\ wrapped.res.body.kind = "json"
         /\ wrapped.res.body.error.shape = "object"
         /\ wrapped.res.body.error.message = wrapped.arg.message
         /\ wrapped.res.body.error.status = wrapped.res.status
         /\ wrapped.nextArgs = << >>
    /\ (wrapped.arg # NoApiError /\ wrapped.headersSent) =>
         /\ wrapped.res = [NotSent EXCEPT !.sent = TRUE]
         /\ wrapped.nextArgs = <<wrapped.arg>>
    /\ wrapped.arg = NoApiError =>
         /\ wrapped.nextArgs = <<NoApiError>>
         /\ wrapped.res.sent = wrapped.headersSent

C39_Witness ==
  /\ wrapped.wpc = "returned"
  /\ wrapped.arg = ApiError("boom", 0)
  /\ ~wrapped.headersSent
  /\ wrapped.res.status = 500
  /\ wrapped.nextArgs = << >>

====
